---- MODULE Spec2Model ----
(***************************************************************************)
(* A model of the typefetch request execution engine (src/src/client.ts,   *)
(* class ApiClient, the revision that starts at line 437): one client, its *)
(* configuration calls, and one endpoint call followed from request()      *)
(* through token resolution, the middleware chain, the transport, response *)
(* resolution, the retry engine and the final catch.                       *)
(*                                                                         *)
(* Encoding of JavaScript values: the strings "undefined" and "null" stand *)
(* for the values undefined and null, "" is the empty string, and a status *)
(* or numeric code of 0 stands for an absent (undefined) number.           *)
(***************************************************************************)
EXTENDS Naturals, Sequences, FiniteSets, TLC

VARIABLES
    \* ---- fields of ApiClient
    token,              \* config.token
    tokenProvider,      \* this.tokenProvider
    middlewares,        \* this.middlewares, in registration order
    errorHandler,       \* TRUE iff this.errorHandler is set
    responseTransform,  \* this.responseTransform
    retryConfig,        \* this.retryConfig
    responseWrapper,    \* TRUE iff this.responseWrapper is set
    useMockData,        \* this.useMockData
    setupCalls,         \* number of configuration calls made so far
    \* ---- the call in flight
    pc,                 \* where the call is suspended
    endpoint,           \* the EndpointDef the call is for
    input,              \* the caller's input
    options,            \* the RequestOptions the call was given
    ctx,                \* the request context { url, init }
    timeoutId,          \* the timer performRequestLogic armed for the call
    aborted,            \* TRUE iff options.signal has been aborted
    attempt,            \* executeWithRetry's local counter
    outcome,            \* how the call's promise settled
    \* ---- what the collaborators observed
    providerCalls,      \* invocations of the token provider
    mwCalls,            \* invocations of middleware functions
    fetchCalls,         \* invocations of fetch
    fnCalls,            \* invocations of execute (the attempts)
    lastThrown,         \* what the latest failed attempt threw
    handlerCalls,       \* invocations of the error observer
    handlerLast,        \* the error the observer was last given
    trace,              \* middleware / transport events of the latest attempt
    delays,             \* the backoff waits started, in order
    condCalls,          \* the calls of retryCondition: attempt number, and
                        \* whether the error handed over was normalized
    transformCalls,     \* applications of responseTransform
    wrapperCalls,       \* invocations of this.responseWrapper
    lastResponse,       \* what runner() settled with in the latest attempt
    sent,               \* the url and init fetch was last called with
    \* ---- two calls in flight on one client
    calls,              \* per call: where it is, the context object it
                        \* holds, what its middlewares wrote and saw
    contexts,           \* the context objects created so far, by identity
    \* ---- the middlewares of the library, each run on its own
    cache,              \* cacheMiddleware: the Map of one instance
    now,                \* Date.now()
    cacheRuns,          \* cacheMiddleware: its invocations
    retryRun,           \* retryMiddleware: one invocation
    authRun,            \* authMiddleware: one invocation
    \* ---- one call followed through its chain, step by step
    pipeline,           \* the call: its context, its position in the chain
    \* ---- the earlier revision of buildUrlAndBody, applied on its own
    built               \* its arguments and what it returned or threw

vars == << token, tokenProvider, middlewares, errorHandler, responseTransform,
           retryConfig, responseWrapper, useMockData, setupCalls,
           pc, endpoint, input, options, ctx, timeoutId, aborted, attempt,
           outcome,
           providerCalls, mwCalls, fetchCalls, fnCalls, lastThrown,
           handlerCalls, handlerLast, trace, delays, condCalls, transformCalls,
           wrapperCalls, lastResponse, sent,
           calls, contexts, cache, now, cacheRuns, retryRun, authRun,
           pipeline, built >>

libVars ==
    << calls, contexts, cache, now, cacheRuns, retryRun, authRun, pipeline,
       built >>

configVars == << token, tokenProvider, middlewares, errorHandler,
                 responseTransform, retryConfig, responseWrapper, useMockData,
                 setupCalls >>

callVars ==
    << pc, endpoint, input, options, ctx, timeoutId, aborted, attempt,
       outcome >>

seenVars == << providerCalls, mwCalls, fetchCalls, fnCalls, lastThrown,
               handlerCalls, handlerLast, trace, delays, condCalls,
               transformCalls, wrapperCalls, lastResponse, sent >>

----------------------------------------------------------------------------
(* Bounds of the model *)

MaxRetries == 2

MaxMiddlewares == 2

MaxSetupCalls == 2

\* The clock of the cache middleware stops at MaxTime
MaxTime == 2

----------------------------------------------------------------------------
(* Values *)

Undefined == "undefined"

Null == "null"

\* JavaScript truthiness of a token value (!token)
Falsy(t) == t \in {Undefined, Null, ""}

baseUrl == "https://api.test.com"

\* The static tokens a client is constructed with
StaticTokens == {Undefined, "static-token"}

\* What a token provider does when called: return a value, or throw
TokenProvider == {"dynamic-token", "", Null, "throws"}

\* The contracts the client is built from
getUser ==
    [name |-> "getUser", method |-> "GET", path |-> "/user", auth |-> FALSE,
     mockData |-> "static", headers |-> "none", bodyType |-> "json"]

createUser ==
    [name |-> "createUser", method |-> "POST", path |-> "/user", auth |-> TRUE,
     mockData |-> "function", headers |-> "none", bodyType |-> "json"]

listUsers ==
    [name |-> "listUsers", method |-> "GET", path |-> "/users", auth |-> FALSE,
     mockData |-> "none", headers |-> "none", bodyType |-> "json"]

getPost ==
    [name |-> "getPost", method |-> "GET", path |-> "/posts/:id",
     auth |-> TRUE, mockData |-> "none", headers |-> "none",
     bodyType |-> "json"]

\* An endpoint whose response is a number and whose mock value is 0
countUsers ==
    [name |-> "countUsers", method |-> "GET", path |-> "/users/count",
     auth |-> FALSE, mockData |-> "zero", headers |-> "none",
     bodyType |-> "json"]

contracts == {getUser, createUser, listUsers, getPost, countUsers}

NoEndpoint ==
    [name |-> "none", method |-> "GET", path |-> "", auth |-> FALSE,
     mockData |-> "none", headers |-> "none", bodyType |-> "json"]

\* A caller's input.  `text` stands for the object (JSON.stringify(input) is
\* "JSON(" \o text \o ")"), `accepted` says whether endpoint.request.parse
\* lets it through, and id, body and headers are input.path?.id, input.body
\* and input.headers?.["X-Trace"], Undefined where the key is absent.
flat(text, accepted) ==
    [text |-> text, accepted |-> accepted, id |-> Undefined,
     body |-> Undefined, headers |-> Undefined]

NoInput == flat("none", TRUE)

\* Flat inputs: one the endpoint's request schema accepts, one it rejects
Inputs == {flat("valid", TRUE), flat("invalid", FALSE)}

\* Structured inputs { path, body, headers } the request schema accepts
structured(id, body, headers) ==
    [text |-> "{path.id:" \o id \o ",body:" \o body \o ",headers:"
              \o headers \o "}",
     accepted |-> TRUE, id |-> id, body |-> body, headers |-> headers]

StructuredInputs ==
    { structured(id, body, headers) :
        id \in {Undefined, Null, "123", "a b"},
        body \in {Undefined, Null, "0", "payload"},
        headers \in {Undefined, "call"} }

\* RequestOptions: timeout is 0 when none is given, signal is "none" or the
\* signal of the caller's own AbortController
NoOptions == [timeout |-> 0, signal |-> "none"]

RequestOptions == [timeout : {0, 5000}, signal : {"none", "signal"}]

\* RichError and the other things that are thrown.  title, detail and errors
\* are "" when absent; issues are the messages of a ZodError's issues.
NoError ==
    [type |-> "none", message |-> "", status |-> 0, code |-> "", title |-> "",
     detail |-> "", errors |-> "", issues |-> << >>]

PlainError(message) == [NoError EXCEPT !.type = "Error", !.message = message]

ZodError(issues) == [NoError EXCEPT !.type = "ZodError", !.issues = issues]

\* new RichError(error): Object.assign copies every field given
RichError(message, status, code, title, detail, errors) ==
    [type |-> "RichError", message |-> message, status |-> status,
     code |-> code, title |-> title, detail |-> detail, errors |-> errors,
     issues |-> << >>]

createError(message, status, code) ==
    RichError(message, status, code, "", "", "")

\* Array.prototype.join
RECURSIVE join(_, _)
join(strings, separator) ==
    IF Len(strings) = 0 THEN ""
    ELSE IF Len(strings) = 1 THEN strings[1]
    ELSE strings[1] \o separator \o join(Tail(strings), separator)

\* normalizeError handing every error back as it came
normalizeErrorUnchanged(err) == err

\* normalizeError building a new RichError from the message of whatever it
\* is given
normalizeErrorRewrapping(err) ==
    IF err.type = "ZodError"
    THEN createError("Validation error: " \o join(err.issues, ", "), 0,
                     "VALIDATION_ERROR")
    ELSE createError(IF err.message # "" THEN err.message
                     ELSE "Unknown error", 0, "")

\* normalizeError reporting the first issue of a ZodError only
normalizeErrorFirstIssue(err) ==
    IF err.type = "RichError" THEN err
    ELSE IF err.type = "ZodError"
         THEN createError("Validation error: " \o err.issues[1], 0,
                          "VALIDATION_ERROR")
         ELSE createError(IF err.message # "" THEN err.message
                          ELSE "Unknown error", 0, "")

normalizeError(err) ==
    IF err.type = "RichError" THEN err
    ELSE IF err.type = "ZodError"
         THEN createError("Validation error: " \o join(err.issues, ", "), 0,
                          "VALIDATION_ERROR")
         ELSE createError(IF err.message # "" THEN err.message
                          ELSE "Unknown error", 0, "")

----------------------------------------------------------------------------
(* Middlewares, responses *)

\* What a registered middleware function does when it is invoked:
\*   "wrap"  runs code, awaits next(), runs code, returns next()'s response
\*   "short" returns a response of its own without calling next()
\*   "throw" throws without calling next()
Middleware == {"wrap", "short", "throw"}

\* A parsed JSON body.  success is "absent", "true" or "false"; message and
\* code are Undefined when the body has no such field, and code holds the
\* text of the JSON value; title, detail and errors are "" when absent.
\* syntax is FALSE for a body that is not JSON, on which res.json() rejects.
Body(success, data, message, code) ==
    [success |-> success, data |-> data, message |-> message, code |-> code,
     title |-> "", detail |-> "", errors |-> "", syntax |-> TRUE]

Response(ok, status, statusText, body) ==
    [kind |-> "response", ok |-> ok, status |-> status,
     statusText |-> statusText, body |-> body, error |-> NoError]

Rejection(err) ==
    [kind |-> "error", ok |-> FALSE, status |-> 0, statusText |-> "",
     body |-> Body("absent", "none", Undefined, Undefined), error |-> err]

\* What the transport can answer
Ok200 == Response(TRUE, 200, "OK", Body("absent", "good", Undefined, Undefined))

BadPayload200 ==
    Response(TRUE, 200, "OK", Body("absent", "bad", Undefined, Undefined))

Http400 ==
    Response(FALSE, 400, "Bad Request",
             [Body("absent", "none", "Invalid input", "BAD_INPUT")
              EXCEPT !.title = "Bad input", !.detail = "id is malformed",
                     !.errors = "id: malformed"])

Http500 ==
    Response(FALSE, 500, "Internal Server Error",
             Body("absent", "none", Undefined, Undefined))

\* A gateway's HTML error page
Html502 ==
    Response(FALSE, 502, "Bad Gateway",
             [Body("absent", "none", Undefined, Undefined)
              EXCEPT !.syntax = FALSE])

EnvelopeOk200 ==
    Response(TRUE, 200, "OK", Body("true", "good", Undefined, Undefined))

EnvelopeFail200 ==
    Response(TRUE, 200, "OK", Body("false", "none", "not found", "404"))

\* A failure envelope with an empty message and the code 0
EnvelopeBlank200 == Response(TRUE, 200, "OK", Body("false", "none", "", "0"))

NetworkFailure == Rejection(PlainError("Network error"))

\* fetch rejecting because its signal is aborted
AbortFailure == Rejection(PlainError("This operation was aborted"))

FetchOutcomes ==
    {Ok200, BadPayload200, Http400, Http500, Html502, EnvelopeOk200,
     EnvelopeFail200, EnvelopeBlank200, NetworkFailure}

\* The response a short-circuiting middleware builds itself
ShortResponse ==
    Response(TRUE, 200, "", Body("absent", "good", Undefined, Undefined))

MiddlewareFailure == Rejection(PlainError("middleware failed"))

Event(ev, mw) == [ev |-> ev, mw |-> mw]

\* The chain reduceRight builds, as the registration indices of the
\* middlewares from the outermost to the innermost; the transport is the
\* initial value of the fold and so the innermost step.
\* Array.prototype.reduceRight visits the entries from the last to the
\* first; each step wraps the chain built so far inside the visited entry.
RECURSIVE reduceRight(_, _, _)
reduceRight(mws, i, next) ==
    IF i = 0 THEN next ELSE reduceRight(mws, i - 1, << i >> \o next)

\* Array.prototype.reduce visits the entries from the first to the last
RECURSIVE reduce(_, _, _)
reduce(mws, i, next) ==
    IF i > Len(mws) THEN next ELSE reduce(mws, i + 1, << i >> \o next)

\* The chain as a left fold would build it: the last registered outermost
runnerByReduce(mws) == reduce(mws, 1, << >>)

runner(mws) == reduceRight(mws, Len(mws), << >>)

\* The position in the chain of the first middleware at or after position i
\* that does not call next(); Len(chain) + 1 when the transport is reached.
RECURSIVE Descend(_, _, _)
Descend(mws, chain, i) ==
    IF i > Len(chain) THEN i
    ELSE IF mws[chain[i]] = "wrap" THEN Descend(mws, chain, i + 1) ELSE i

\* Events of the way down: the middlewares at positions 1 .. upTo are invoked
Befores(chain, upTo) == [i \in 1..upTo |-> Event("before", chain[i])]

\* Events of the way back: the code after next() at positions from .. 1
Afters(chain, from) == [i \in 1..from |-> Event("after", chain[from + 1 - i])]

----------------------------------------------------------------------------
(* Retry configuration *)

Backoff == {"fixed", "linear", "exponential"}

\* retryCondition: absent, or a predicate that accepts / rejects every error
RetryCondition == {"none", "accept", "reject"}

NoRetryConfig ==
    [set |-> FALSE, maxRetries |-> 0, backoff |-> "fixed",
     retryCondition |-> "none"]

RetryConfigs ==
    [set : {TRUE}, maxRetries : 0..MaxRetries, backoff : Backoff,
     retryCondition : RetryCondition]

RECURSIVE Pow2(_)
Pow2(n) == IF n = 0 THEN 1 ELSE 2 * Pow2(n - 1)

base == 300

\* A strategy whose exponential wait doubles from the first retry on
getBackoffDelayDoubling(type, k) ==
    CASE type = "fixed" -> base
      [] type = "linear" -> base * k
      [] type = "exponential" -> base * Pow2(k)

getBackoffDelay(type, k) ==
    CASE type = "fixed" -> base
      [] type = "linear" -> base * k
      [] type = "exponential" -> base * Pow2(k - 1)

----------------------------------------------------------------------------
(* Response resolution: the body of execute after runner() has settled *)

Threw(err, reported) ==
    [threw |-> TRUE, error |-> err, value |-> "", reported |-> reported,
     transformed |-> FALSE]

Returned(value) ==
    [threw |-> FALSE, error |-> NoError, value |-> value, reported |-> FALSE,
     transformed |-> TRUE]

\* The JSON value is a number
IsNumber(v) == v \in {"0", "404"}

\* The number a numeric JSON value denotes
Number(v) == IF v = "404" THEN 404 ELSE 0

\* An absent field of the body is an absent field of the error
copied(v) == IF v = Undefined THEN "" ELSE v

\* wrapper(endpoint.response).parse(json) succeeds: a success envelope around
\* a valid payload, or a failure envelope with a string message and a
\* numeric code
WrapperAccepts(body) ==
    \/ body.success = "true" /\ body.data = "good"
    \/ body.success = "false" /\ body.message # Undefined /\ IsNumber(body.code)

\* endpoint.response.parse(responseData) succeeds
ResponseAccepts(body, wrapped) ==
    IF wrapped THEN body.data = "good"
    ELSE body.success = "absent" /\ body.data = "good"

\* The transform that hands its argument back whatever was registered
applyTransformIdentity(fn, value) == value

\* The functions registered with useResponseTransform
Transforms == {"f", "g"}

applyTransform(fn, value) ==
    IF fn = "identity" THEN value ELSE fn \o "(" \o value \o ")"

\* execute reaches the call of this.responseWrapper
callsWrapper(res, wrapper) ==
    wrapper /\ res.kind = "response" /\ res.body.syntax

\* The error of the envelope branch with the envelope's fields taken as they
\* are, without fallbacks
envelopeErrorAsIs(res) ==
    createError(res.body.message, Number(res.body.code),
                "API_ERROR_" \o res.body.code)

\* The error execute builds from a failure envelope
envelopeError(res) ==
    createError(IF res.body.message # "" THEN res.body.message
                ELSE "Request failed",
                IF Number(res.body.code) # 0 THEN Number(res.body.code)
                ELSE res.status,
                "API_ERROR_" \o res.body.code)

\* The error of the HTTP branch without the body's extra fields
httpErrorMessageOnly(res) ==
    createError(IF ~Falsy(res.body.message) THEN res.body.message
                ELSE res.statusText, res.status, "")

\* The error execute builds from a response that is not ok
httpError(res) ==
    RichError(IF ~Falsy(res.body.message) THEN res.body.message
              ELSE res.statusText,
              res.status, copied(res.body.code), res.body.title,
              res.body.detail, res.body.errors)

\* The resolution with the HTTP status looked at before the envelope
executeStatusFirst(res, wrapper, fn) ==
    IF res.kind = "error" THEN Threw(res.error, FALSE)
    ELSE IF ~res.body.syntax
    THEN Threw(PlainError("Unexpected token < in JSON at position 0"), FALSE)
    ELSE IF ~res.ok THEN Threw(httpError(res), TRUE)
    ELSE IF wrapper /\ ~WrapperAccepts(res.body)
    THEN Threw(ZodError(<< "Invalid input" >>), FALSE)
    ELSE IF wrapper /\ res.body.success = "false"
    THEN Threw(envelopeError(res), TRUE)
    ELSE IF ~ResponseAccepts(res.body, wrapper)
    THEN Threw(ZodError(<< "Required", "Expected string, received number" >>),
               FALSE)
    ELSE Returned(applyTransform(fn, "data"))

\* `reported` says that execute itself handed the error to the observer
\* before throwing it.
execute(res, wrapper, fn) ==
    IF res.kind = "error" THEN Threw(res.error, FALSE)
    ELSE IF ~res.body.syntax
    THEN Threw(PlainError("Unexpected token < in JSON at position 0"), FALSE)
    ELSE IF wrapper /\ ~WrapperAccepts(res.body)
    THEN Threw(ZodError(<< "Invalid input" >>), FALSE)
    ELSE IF wrapper /\ res.body.success = "false"
    THEN Threw(envelopeError(res), TRUE)
    ELSE IF ~res.ok THEN Threw(httpError(res), TRUE)
    ELSE IF ~ResponseAccepts(res.body, wrapper)
    THEN Threw(ZodError(<< "Required", "Expected string, received number" >>),
               FALSE)
    ELSE Returned(applyTransform(fn, "data"))

----------------------------------------------------------------------------
(* The retry decision of executeWithRetry for failure number k *)

\* The default policy with the threshold at client errors
defaultRetryPolicyFrom400(error) == error.status # 0 /\ error.status >= 400

defaultRetryPolicy(error) == error.status # 0 /\ error.status >= 500

\* The retry decision with a strict comparison against maxRetries
shouldRetryStrict(cfg, error, k) ==
    /\ k < cfg.maxRetries
    /\ CASE cfg.retryCondition = "accept" -> TRUE
         [] cfg.retryCondition = "reject" -> FALSE
         [] OTHER -> error.status # 0 /\ error.status >= 500

shouldRetry(cfg, error, k) ==
    /\ k <= cfg.maxRetries
    /\ CASE cfg.retryCondition = "accept" -> TRUE
         [] cfg.retryCondition = "reject" -> FALSE
         [] OTHER -> defaultRetryPolicy(error)

\* retryCondition evaluated on every failure, before the attempt number
\* is compared
conditionCalledOnEveryFailure(cfg, k) ==
    cfg.set /\ cfg.retryCondition # "none"

\* attempt <= maxRetries && retryCondition?.(error, attempt): the condition
\* is called on the k-th failure only when one is supplied and k is within
\* maxRetries
conditionCalled(cfg, k) ==
    cfg.set /\ k <= cfg.maxRetries /\ cfg.retryCondition # "none"

\* What a call retryCondition(error, k) is remembered by
conditionCall(error, k) ==
    [attempt |-> k, normalized |-> normalizeError(error) = error]

----------------------------------------------------------------------------
(* Pure parts of request and performRequestLogic *)

\* Request validation that lets every input through
requestParseNeverThrows(in) == FALSE

\* endpoint.request.parse(input) throws
requestParseThrows(in) == ~in.accepted

\* request takes the mock path: mock mode is on and mockData is truthy
takesMockPath(mock, e) == mock /\ e.mockData \notin {"none", "zero"}

\* JSON.stringify(value)
stringify(value) == "JSON(" \o value \o ")"

\* input.body ?? input
bodyOrInput(in) == IF in.body \in {Undefined, Null} THEN in.text ELSE in.body

\* The FormData built from Object.entries(input.body || {}): a body that is
\* absent, null or falsy gives an empty form
formData(in) ==
    IF in.body \in {Undefined, Null, "0"} THEN "FormData()"
    ELSE "FormData(" \o in.body \o ")"

\* The body falling back to the whole input whenever the body is falsy
buildUrlAndBodyFalsyBody(e, in) ==
    [url |-> baseUrl \o e.path,
     body |-> IF e.method = "GET" THEN Undefined
              ELSE IF e.bodyType = "form-data" THEN formData(in)
              ELSE stringify(IF in.body \in {Undefined, Null, "0"}
                             THEN in.text ELSE in.body)]

buildUrlAndBody(e, in) ==
    [url |-> baseUrl \o e.path,
     body |-> IF e.method = "GET" THEN Undefined
              ELSE IF e.bodyType = "form-data" THEN formData(in)
              ELSE stringify(bodyOrInput(in))]

\* Token resolution that prefers the static token over the provider
getCurrentTokenStaticFirst(provider, static) ==
    IF static # Undefined THEN static ELSE provider

\* The value the awaited getCurrentToken() resolves to ("throws": it rejects)
getCurrentToken(provider, static) ==
    IF provider # "unset" THEN provider ELSE static

\* The auth precondition testing for undefined only
missingTokenUndefinedOnly(e, tok) == e.auth /\ tok = Undefined

\* The auth precondition fails
missingToken(e, tok) == e.auth /\ Falsy(tok)

\* The headers performRequestLogic starts the context with; "" is an absent
\* header.
buildHeaders(e, tok) ==
    [Authorization |-> IF e.auth /\ ~Falsy(tok) THEN "Bearer " \o tok ELSE "",
     ContentType |-> IF e.bodyType # "form-data" THEN "application/json"
                     ELSE ""]

NoCtx ==
    [url |-> "", method |-> "", body |-> Undefined,
     headers |-> [Authorization |-> "", ContentType |-> ""],
     signal |-> "none"]

\* The context carries a signal only when the caller passes one
initSignalExternalOnly(opts) ==
    IF opts.signal # "none" THEN "external" ELSE "none"

\* ctx.init.signal = options?.signal || controller?.signal: which signal the
\* context carries
initSignal(opts) ==
    IF opts.signal # "none" THEN "external"
    ELSE IF opts.timeout # 0 THEN "controller" ELSE "none"

\* setTimeout(() => controller.abort(), options.timeout), if a timeout is given
setTimeout(opts) == IF opts.timeout # 0 THEN "armed" ELSE "unset"

\* A call that settles leaving its timer as it is
clearTimeoutSkipped(id) == id

\* if (timeoutId) clearTimeout(timeoutId): a timer that has not fired is
\* cancelled
clearTimeout(id) == IF id = "armed" THEN "cleared" ELSE id

\* The signal the context carries is aborted
signalAborted(sig, ext, id) ==
    \/ sig = "external" /\ ext
    \/ sig = "controller" /\ id = "fired"

Pending == [state |-> "pending", value |-> "", error |-> NoError]

Resolved(value) == [state |-> "resolved", value |-> value, error |-> NoError]

Rejected(err) == [state |-> "rejected", value |-> "", error |-> err]

----------------------------------------------------------------------------
(* Two calls in flight on one client.  Each invocation of
   performRequestLogic creates its own headers object and its own context
   object; the middlewares of the chain built in that invocation close over
   that context. *)

Calls == {1, 2}

\* What a middleware writes into the context it is handed
Marks == {"m1", "m2"}

NoCall ==
    [pc |-> "idle", endpoint |-> NoEndpoint, input |-> NoInput, ctx |-> 0,
     wrote |-> "", seen |-> << >>, sent |-> << >>]

\* One object for every invocation
newObjectShared(heap) == 1

\* const headers = {} and const ctx = { url, init: { ... } }: an object
\* literal evaluates to a new object, one no other invocation holds
newObject(heap) == Len(heap) + 1

\* The heap after the object `ref` has been given the value obj
put(heap, ref, obj) ==
    IF ref > Len(heap) THEN Append(heap, obj) ELSE [heap EXCEPT ![ref] = obj]

\* The context performRequestLogic builds for a call of e with input in
context(e, in, tok) ==
    [url |-> buildUrlAndBody(e, in).url,
     method |-> e.method,
     body |-> buildUrlAndBody(e, in).body,
     headers |-> buildHeaders(e, tok)]

\* A middleware's writes: ctx.url += "?" + mark, ctx.init.body = mark and
\* ctx.init.headers["X-Mark"] = mark
mutate(obj, mark) ==
    [obj EXCEPT !.url = @ \o "?" \o mark,
                !.body = mark,
                !.headers = ("X-Mark" :> mark) @@ @]

\* request(endpoint, input) of call i, up to the await of getCurrentToken()
callRequest(i, e, in) ==
    /\ calls[i].pc = "idle"
    /\ ~requestParseThrows(in)
    /\ ~takesMockPath(useMockData, e)
    /\ calls' = [calls EXCEPT ![i].pc = "token", ![i].endpoint = e,
                              ![i].input = in]
    /\ UNCHANGED << configVars, callVars, seenVars, pipeline, built,
                    contexts, cache, now,
                    cacheRuns, retryRun, authRun >>

\* performRequestLogic of call i once the token has resolved: the context
\* is created and the chain starts with the first middleware
callPerformRequestLogic(i) ==
    /\ calls[i].pc = "token"
    /\ LET c == calls[i]
           tok == getCurrentToken(tokenProvider, token)
           ref == newObject(contexts)
       IN
       /\ ~missingToken(c.endpoint, tok)
       /\ contexts' = put(contexts, ref, context(c.endpoint, c.input, tok))
       /\ calls' = [calls EXCEPT ![i].pc = "first", ![i].ctx = ref]
    /\ UNCHANGED << configVars, callVars, seenVars, pipeline, built,
                    cache, now, cacheRuns,
                    retryRun, authRun >>

\* The first middleware of call i writes to its context and awaits
\* something of its own before it calls next()
callMiddlewareWrites(i, mark) ==
    /\ calls[i].pc = "first"
    /\ contexts' = [contexts EXCEPT ![calls[i].ctx] = mutate(@, mark)]
    /\ calls' = [calls EXCEPT ![i].pc = "second", ![i].wrote = mark]
    /\ UNCHANGED << configVars, callVars, seenVars, pipeline, built,
                    cache, now, cacheRuns,
                    retryRun, authRun >>

\* next(): the second middleware of call i reads its context and awaits
\* something of its own before it calls next()
callMiddlewareReads(i) ==
    /\ calls[i].pc = "second"
    /\ calls' = [calls EXCEPT ![i].pc = "last",
                              ![i].seen = << contexts[calls[i].ctx] >>]
    /\ UNCHANGED << configVars, callVars, seenVars, pipeline, built,
                    contexts, cache, now,
                    cacheRuns, retryRun, authRun >>

\* next() of the last middleware: fetch(ctx.url, ctx.init)
callFetch(i) ==
    /\ calls[i].pc = "last"
    /\ calls' = [calls EXCEPT ![i].pc = "fetch",
                              ![i].sent = << contexts[calls[i].ctx] >>]
    /\ UNCHANGED << configVars, callVars, seenVars, pipeline, built,
                    contexts, cache, now,
                    cacheRuns, retryRun, authRun >>

\* The transport answers call i and the call settles
callSettles(i) ==
    /\ calls[i].pc = "fetch"
    /\ calls' = [calls EXCEPT ![i].pc = "done"]
    /\ UNCHANGED << configVars, callVars, seenVars, pipeline, built,
                    contexts, cache, now,
                    cacheRuns, retryRun, authRun >>

----------------------------------------------------------------------------
(* cacheMiddleware: one instance, its Map, and invocations of the function
   it returns.  Two invocations may be suspended at the same time. *)

\* const { ttl = 60000 } = options, in ticks of the model's clock
ttl == 2

CacheRuns == {1, 2}

Urls == {"/users", "/posts"}

\* `${ctx.init.method}:${ctx.url}`
cacheKey(method, url) == method \o ":" \o url

CacheKeys == { cacheKey("GET", url) : url \in Urls }

\* cache.get(key) of a key never set
NoEntry == [set |-> FALSE, data |-> Undefined, expires |-> 0]

\* A response as the middleware sees it: status, ok, and the text of its body
CacheResponse(status, body) ==
    [status |-> status, ok |-> status \in 200..299, body |-> body,
     synthetic |-> FALSE]

NoResponse == [status |-> 0, ok |-> FALSE, body |-> Undefined,
               synthetic |-> FALSE]

\* What next() resolves with: two successful JSON bodies, a body that is not
\* JSON, and a 404 with a JSON error body
NextResponses ==
    {CacheResponse(200, "users-v1"), CacheResponse(200, "users-v2"),
     CacheResponse(200, "<html>"), CacheResponse(404, "not found")}

\* res.clone().json().catch(() => null)
json(res) == IF res.body = "<html>" THEN Null ELSE res.body

\* if (data): JavaScript truthiness of the parsed body
truthy(data) == data \notin {Null, "0"}

\* new Response(JSON.stringify(cached.data), { headers }): status 200
syntheticResponse(entry) ==
    [status |-> 200, ok |-> TRUE, body |-> entry.data, synthetic |-> TRUE]

\* An entry counting as valid whatever its expiry
validEver(entry, t) == entry.set

\* cached && cached.expires > now
valid(entry, t) == entry.set /\ entry.expires > t

\* if (data) cache.set(...): what is written to the Map
cacheable(res) == truthy(json(res))

\* An invocation: where it is, its ctx, the time it took (kept while it is
\* suspended), its calls of next() and the response it has or returns
NoCacheRun ==
    [pc |-> "idle", method |-> "", url |-> "", started |-> 0,
     nextCalls |-> 0, res |-> NoResponse, threw |-> FALSE]

\* The middleware is invoked with ctx = { url, init: { method } }: a GET
\* with a valid entry returns the synthetic response at once; otherwise
\* next() is called and awaited.
cacheMiddleware(i, method, url) ==
    /\ cacheRuns[i].pc \in {"idle", "done"}
    /\ LET run == [NoCacheRun EXCEPT !.method = method, !.url = url,
                                     !.started = now]
       IN
       cacheRuns' =
           [cacheRuns EXCEPT ![i] =
               IF method = "GET" /\ valid(cache[cacheKey(method, url)], now)
               THEN [run EXCEPT !.pc = "done", !.started = 0,
                                !.res = syntheticResponse(
                                            cache[cacheKey(method, url)])]
               ELSE [run EXCEPT !.pc = "next", !.nextCalls = 1]]
    /\ UNCHANGED << configVars, callVars, seenVars, pipeline, built,
                    calls, contexts, cache,
                    now, retryRun, authRun >>

\* next() resolves with res: a GET goes on to read the body, any other
\* method returns res
cacheNextResolves(i, res) ==
    /\ cacheRuns[i].pc = "next"
    /\ cacheRuns' =
           [cacheRuns EXCEPT ![i] =
               IF cacheRuns[i].method = "GET"
               THEN [@ EXCEPT !.pc = "json", !.res = res]
               ELSE [@ EXCEPT !.pc = "done", !.res = res, !.started = 0]]
    /\ UNCHANGED << configVars, callVars, seenVars, pipeline, built,
                    calls, contexts, cache,
                    now, retryRun, authRun >>

\* next() rejects: the middleware rejects with the same error
cacheNextRejects(i) ==
    /\ cacheRuns[i].pc = "next"
    /\ cacheRuns' = [cacheRuns EXCEPT ![i].pc = "done", ![i].threw = TRUE,
                                     ![i].started = 0]
    /\ UNCHANGED << configVars, callVars, seenVars, pipeline, built,
                    calls, contexts, cache,
                    now, retryRun, authRun >>

\* The body has been read: the entry is written with the time taken before
\* next() was called, and res is returned
cacheStores(i) ==
    /\ cacheRuns[i].pc = "json"
    /\ LET run == cacheRuns[i] IN
       cache' = IF cacheable(run.res)
                THEN [cache EXCEPT ![cacheKey(run.method, run.url)] =
                         [set |-> TRUE, data |-> json(run.res),
                          expires |-> run.started + ttl]]
                ELSE cache
    /\ cacheRuns' = [cacheRuns EXCEPT ![i].pc = "done", ![i].started = 0]
    /\ UNCHANGED << configVars, callVars, seenVars, pipeline, built,
                    calls, contexts, now,
                    retryRun, authRun >>

\* Time passes
tick ==
    /\ now < MaxTime
    /\ now' = now + 1
    /\ UNCHANGED << configVars, callVars, seenVars, pipeline, built,
                    calls, contexts, cache,
                    cacheRuns, retryRun, authRun >>

----------------------------------------------------------------------------
(* retryMiddleware: one invocation of the middleware it returns *)

\* retryMiddleware(options): no options at all, or maxRetries and delay
NoRetryOptions == [given |-> FALSE, maxRetries |-> 0, delay |-> 0]

RetryOptions ==
    {NoRetryOptions}
    \cup [given : {TRUE}, maxRetries : 0..MaxRetries, delay : {10, 500}]

\* const { maxRetries = 3, delay = 500 } = options || {}
retryDefaults(opts) ==
    IF opts.given THEN opts
    ELSE [given |-> FALSE, maxRetries |-> 3, delay |-> 500]

\* What next() resolves with, and what it throws
Responses == {"response-1", "response-2"}

Errors == {"fail", "fail always"}

NoRetryRun ==
    [pc |-> "idle", maxRetries |-> 0, delay |-> 0, attempt |-> 0,
     nextCalls |-> 0, thrown |-> << >>, waits |-> << >>,
     state |-> "pending", value |-> ""]

\* The loop giving up one failure early
givesUpEarly(failures, maxRetries) == failures + 1 >= maxRetries

\* if (attempt >= maxRetries) throw err
givesUp(failures, maxRetries) == failures >= maxRetries

\* The middleware is invoked: attempt = 0 and the loop calls next()
retryMiddleware(opts) ==
    /\ retryRun.pc = "idle"
    /\ retryRun' = [NoRetryRun EXCEPT
                       !.pc = "next",
                       !.maxRetries = retryDefaults(opts).maxRetries,
                       !.delay = retryDefaults(opts).delay,
                       !.nextCalls = 1]
    /\ UNCHANGED << configVars, callVars, seenVars, pipeline, built,
                    calls, contexts, cache,
                    now, cacheRuns, authRun >>

\* return await next(): next() resolved
retryNextResolves(response) ==
    /\ retryRun.pc = "next"
    /\ retryRun' = [retryRun EXCEPT !.pc = "done", !.state = "resolved",
                                    !.value = response]
    /\ UNCHANGED << configVars, callVars, seenVars, pipeline, built,
                    calls, contexts, cache,
                    now, cacheRuns, authRun >>

\* catch (err): rethrow when the retries are used up, else count the
\* attempt and wait delay * 2 ** attempt
retryNextThrows(err) ==
    /\ retryRun.pc = "next"
    /\ IF givesUp(retryRun.attempt, retryRun.maxRetries)
       THEN retryRun' = [retryRun EXCEPT
                            !.pc = "done", !.state = "rejected",
                            !.value = err, !.thrown = Append(@, err)]
       ELSE retryRun' = [retryRun EXCEPT
                            !.pc = "wait", !.attempt = @ + 1,
                            !.thrown = Append(@, err),
                            !.waits = Append(@, retryRun.delay
                                                * Pow2(retryRun.attempt + 1))]
    /\ UNCHANGED << configVars, callVars, seenVars, pipeline, built,
                    calls, contexts, cache,
                    now, cacheRuns, authRun >>

\* The wait is over and the loop calls next() again
retryWaitElapses ==
    /\ retryRun.pc = "wait"
    /\ retryRun' = [retryRun EXCEPT !.pc = "next", !.nextCalls = @ + 1]
    /\ UNCHANGED << configVars, callVars, seenVars, pipeline, built,
                    calls, contexts, cache,
                    now, cacheRuns, authRun >>

----------------------------------------------------------------------------
(* authMiddleware: one invocation *)

\* The options of the invocation: none, {} , a refreshToken that resolves,
\* a refreshToken that throws
AuthOptions == {"undefined", "empty", "resolves", "throws"}

RefreshedTokens == {"NEW_TOKEN", "OTHER_TOKEN"}

\* ctx.init.headers at the invocation: plain objects
NoHeaders == [name \in {} |-> ""]

HeadersBefore ==
    {NoHeaders,
     "X-Trace" :> "1",
     "Authorization" :> "Bearer old",
     ("X-Trace" :> "1") @@ ("Authorization" :> "Bearer old")}

NoAuthRun ==
    [pc |-> "idle", options |-> "undefined", before |-> NoHeaders,
     headers |-> NoHeaders, newToken |-> "", atNext |-> << >>,
     nextCalls |-> 0, state |-> "pending", value |-> ""]

\* The headers replaced by the Authorization header alone
withAuthorizationOnly(headers, newToken) ==
    "Authorization" :> ("Bearer " \o newToken)

\* { ...ctx.init.headers, Authorization: `Bearer ${newToken}` }
withAuthorization(headers, newToken) ==
    ("Authorization" :> ("Bearer " \o newToken)) @@ headers

\* The middleware is invoked with ctx.init.headers = headers: with a
\* refreshToken it is called and awaited, without one next() is called
authMiddleware(headers, opts) ==
    /\ authRun.pc = "idle"
    /\ authRun' =
           IF opts \in {"resolves", "throws"}
           THEN [NoAuthRun EXCEPT !.pc = "refresh", !.options = opts,
                                  !.before = headers, !.headers = headers]
           ELSE [NoAuthRun EXCEPT !.pc = "next", !.options = opts,
                                  !.before = headers, !.headers = headers,
                                  !.atNext = << headers >>, !.nextCalls = 1]
    /\ UNCHANGED << configVars, callVars, seenVars, pipeline, built,
                    calls, contexts, cache,
                    now, cacheRuns, retryRun >>

\* options.refreshToken() resolves: the headers are replaced by a copy with
\* Authorization set, and next() is called
refreshTokenResolves(newToken) ==
    /\ authRun.pc = "refresh"
    /\ authRun.options = "resolves"
    /\ LET headers == withAuthorization(authRun.headers, newToken) IN
       authRun' = [authRun EXCEPT !.pc = "next", !.headers = headers,
                                  !.newToken = newToken,
                                  !.atNext = << headers >>,
                                  !.nextCalls = @ + 1]
    /\ UNCHANGED << configVars, callVars, seenVars, pipeline, built,
                    calls, contexts, cache,
                    now, cacheRuns, retryRun >>

\* options.refreshToken() throws: the catch swallows the error and next()
\* is called
refreshTokenThrows ==
    /\ authRun.pc = "refresh"
    /\ authRun.options = "throws"
    /\ authRun' = [authRun EXCEPT !.pc = "next",
                                  !.atNext = << authRun.headers >>,
                                  !.nextCalls = @ + 1]
    /\ UNCHANGED << configVars, callVars, seenVars, pipeline, built,
                    calls, contexts, cache,
                    now, cacheRuns, retryRun >>

\* return next(): the middleware settles as next() does
authNextSettles(state, value) ==
    /\ authRun.pc = "next"
    /\ authRun' = [authRun EXCEPT !.pc = "done", !.state = state,
                                  !.value = value]
    /\ UNCHANGED << configVars, callVars, seenVars, pipeline, built,
                    calls, contexts, cache,
                    now, cacheRuns, retryRun >>

----------------------------------------------------------------------------
(* One call followed through its chain, step by step.  performRequestLogic
   creates the context once, builds the chain over it and hands execute to
   executeWithRetry; every call of execute runs the chain from its outermost
   step. *)

\* What a middleware does when it is invoked:
\*   "wrap"   awaits next() and returns its response
\*   "write"  writes to the context it is handed, then returns next()
\*   "short"  returns a response of its own without calling next()
\*   "throw"  throws without calling next()
\*   "handle" awaits next() inside try and returns a response of its own
\*            when next() threw
Behaviours == {"wrap", "write", "short", "throw", "handle"}

\* The middlewares registered, first registered first
Chains ==
    UNION { [1..n -> Behaviours] : n \in 0..MaxMiddlewares }

\* The retry configurations of a followed call: none, or one of a single
\* backoff strategy
PipelineConfigs ==
    {NoRetryConfig} \cup { cfg \in RetryConfigs : cfg.backoff = "fixed" }

\* The response a handling middleware returns in place of an error
FallbackResponse ==
    Response(TRUE, 200, "fallback", Body("absent", "good", Undefined, Undefined))

\* What the transport answers a followed call
PipelineOutcomes == {Ok200, Http500, NetworkFailure}

NoPipeline ==
    [pc |-> "idle", chain |-> << >>, config |-> NoRetryConfig, ctx |-> NoCtx,
     at |-> 0, attempt |-> 0, fnCalls |-> 0, began |-> << >>, saw |-> << >>,
     sent |-> << >>, res |-> << >>, outcome |-> Pending]

\* What the middleware registered at index i writes: it appends to ctx.url
\* and sets ctx.init.body, ctx.init.headers["X-Mark"] and ctx.init.signal
writes(obj, i) ==
    [mutate(obj, "m" \o ToString(i)) EXCEPT !.signal = "m" \o ToString(i)]

\* A middleware of every behaviour calls next()
callsNextAlways(behaviour) == TRUE

\* The middleware calls next()
callsNext(behaviour) == behaviour \in {"wrap", "write", "handle"}

\* What runner() settles with when the step inside the middleware at
\* position i settled with o: a response is returned outwards as it is, an
\* error is rethrown by every middleware but a handling one, which returns
\* its own response
RECURSIVE Unwound(_, _, _)
Unwound(chain, i, o) ==
    IF i = 0 THEN o
    ELSE IF chain[i] = "handle" /\ o.kind = "error"
         THEN Unwound(chain, i - 1, FallbackResponse)
         ELSE Unwound(chain, i - 1, o)

\* The transport is handed the context as performRequestLogic built it
transportArgumentsAtBuild(run) == run.began[1]

\* () => fetch(ctx.url, ctx.init): the innermost step reads the fields of
\* the context when it runs
transportArguments(run) == run.ctx

\* Every call of execute works on a context as performRequestLogic built it
attemptContextRebuilt(run) == IF run.began = << >> THEN run.ctx ELSE run.began[1]

\* execute closes over the one ctx of its performRequestLogic invocation
attemptContext(run) == run.ctx

\* A catch that leaves the count of failures as it is
countedNever(failures) == failures

\* attempt++ in the catch of executeWithRetry
counted(failures) == failures + 1

\* runner() of the attempt has settled with res: the rest of execute, the
\* catch of executeWithRetry and the try / catch of performRequestLogic
pipelineSettles(run, res) ==
    LET x == execute(res, responseWrapper, responseTransform)
        k == counted(run.attempt)
        error == IF run.config.set THEN normalizeError(x.error) ELSE x.error
        settled == [run EXCEPT !.res = Append(@, res), !.at = 0]
    IN
    IF ~x.threw
    THEN [settled EXCEPT !.pc = "done", !.outcome = Resolved(x.value)]
    ELSE IF run.config.set /\ shouldRetry(run.config, error, k)
    THEN [settled EXCEPT !.pc = "backoff", !.attempt = k]
    ELSE [settled EXCEPT !.pc = "done",
                         !.attempt = IF run.config.set THEN k ELSE @,
                         !.outcome = Rejected(normalizeError(error))]

\* performRequestLogic of a call of e once the token has resolved: the
\* context, the chain over the middlewares registered, and executeWithRetry
\* entered
pipelineRequest(e, in, chain, config) ==
    /\ pipeline.pc = "idle"
    /\ LET tok == getCurrentToken(tokenProvider, token) IN
       /\ ~missingToken(e, tok)
       /\ pipeline' =
              [NoPipeline EXCEPT
                 !.pc = "run", !.chain = chain, !.config = config,
                 !.ctx = [url |-> buildUrlAndBody(e, in).url,
                          method |-> e.method,
                          body |-> buildUrlAndBody(e, in).body,
                          headers |-> buildHeaders(e, tok),
                          signal |-> initSignal(NoOptions)]]
    /\ UNCHANGED << configVars, callVars, seenVars, calls, contexts, cache,
                    now, cacheRuns, retryRun, authRun, built >>

\* executeWithRetry calls fn(): execute calls runner()
pipelineExecute ==
    /\ pipeline.pc = "run"
    /\ pipeline' = [pipeline EXCEPT !.pc = "chain", !.at = 1,
                                    !.fnCalls = @ + 1,
                                    !.ctx = attemptContext(pipeline),
                                    !.began = Append(@, attemptContext(pipeline)),
                                    !.saw = << >>]
    /\ UNCHANGED << configVars, callVars, seenVars, calls, contexts, cache,
                    now, cacheRuns, retryRun, authRun, built >>

\* mw.fn(ctx, next, mw.options) of the middleware at the call's position
pipelineMiddleware ==
    /\ pipeline.pc = "chain"
    /\ pipeline.at <= Len(pipeline.chain)
    /\ LET i == pipeline.at
           behaviour == pipeline.chain[i]
           invoked == [pipeline EXCEPT
                          !.saw = Append(@, [mw |-> i, ctx |-> pipeline.ctx])]
       IN
       pipeline' =
           IF callsNext(behaviour)
           THEN [invoked EXCEPT !.at = i + 1,
                                !.ctx = IF behaviour = "write"
                                        THEN writes(@, i) ELSE @]
           ELSE pipelineSettles(invoked,
                    Unwound(pipeline.chain, i - 1,
                            IF behaviour = "throw" THEN MiddlewareFailure
                            ELSE ShortResponse))
    /\ UNCHANGED << configVars, callVars, seenVars, calls, contexts, cache,
                    now, cacheRuns, retryRun, authRun, built >>

\* next() of the last middleware: fetch(ctx.url, ctx.init)
pipelineFetch ==
    /\ pipeline.pc = "chain"
    /\ pipeline.at = Len(pipeline.chain) + 1
    /\ pipeline' = [pipeline EXCEPT
                       !.pc = "fetch",
                       !.sent = Append(@, transportArguments(pipeline))]
    /\ UNCHANGED << configVars, callVars, seenVars, calls, contexts, cache,
                    now, cacheRuns, retryRun, authRun, built >>

\* The transport settles with o, which travels outwards through the chain
pipelineFetchSettles(o) ==
    /\ pipeline.pc = "fetch"
    /\ pipeline' = pipelineSettles(pipeline,
                       Unwound(pipeline.chain, Len(pipeline.chain), o))
    /\ UNCHANGED << configVars, callVars, seenVars, calls, contexts, cache,
                    now, cacheRuns, retryRun, authRun, built >>

\* The backoff wait of executeWithRetry elapses and the loop goes round
pipelineBackoffElapses ==
    /\ pipeline.pc = "backoff"
    /\ pipeline' = [pipeline EXCEPT !.pc = "run"]
    /\ UNCHANGED << configVars, callVars, seenVars, calls, contexts, cache,
                    now, cacheRuns, retryRun, authRun, built >>

----------------------------------------------------------------------------
(* The earlier revision of buildUrlAndBody, which interpolates the path of a
   structured input and scans the url for what is left.  Texts are sequences
   of characters here, so that includes, replace and the scan see what the
   url holds. *)

\* Characters of the texts used that [A-Za-z0-9_] does not match
NonWord == {":", "/", ".", "%", "?", "&", "=", " "}

\* this.config.baseUrl: without and with a port
BaseUrls ==
    { << "h", "t", "t", "p", ":", "/", "/", "a", ".", "i", "o" >>,
      << "h", "t", "t", "p", ":", "/", "/", "a", ".", "i", "o", ":", "8",
         "0" >> }

\* Endpoints whose templates have no placeholder and one placeholder; params
\* are the names of the template's placeholders
EarlierEndpoints ==
    { [method |-> "GET", path |-> << "/", "u", "/", ":", "i", "d" >>,
       params |-> { << "i", "d" >> }],
      [method |-> "PUT", path |-> << "/", "u", "/", ":", "i", "d" >>,
       params |-> { << "i", "d" >> }],
      [method |-> "POST", path |-> << "/", "u" >>, params |-> {}] }

\* A value of a path map: null, or a text
PathValue(null, text) == [null |-> null, text |-> text]

\* The path maps of the inputs, as Object.entries lists them
PathMaps ==
    { << >>,
      << [key |-> << "i", "d" >>, value |-> PathValue(TRUE, << >>)] >>,
      << [key |-> << "i", "d" >>, value |-> PathValue(FALSE, << "7" >>)] >>,
      << [key |-> << "i", "d" >>,
          value |-> PathValue(FALSE, << "a", ":", "b", " ", "c" >>)] >>,
      << [key |-> << "i", "d" >>, value |-> PathValue(FALSE, << "7" >>)],
         [key |-> << "x" >>, value |-> PathValue(FALSE, << "1" >>)] >> }

\* The inputs: keys are those of path, query and body the input has; an
\* input with none of them is a flat one.  A query, when given, is
\* { q: "1" }.
EarlierInputs ==
    { [keys |-> ks,
       path |-> IF "path" \in ks THEN p ELSE << >>,
       body |-> IF "body" \in ks THEN b ELSE Undefined,
       text |-> "input"] :
      ks \in SUBSET {"path", "query", "body"}, p \in PathMaps,
      b \in {Null, "payload"} }

NoResult ==
    [threw |-> FALSE, code |-> "", missing |-> << >>, url |-> << >>,
     body |-> Undefined]

NotBuilt ==
    [pc |-> "idle", base |-> << >>,
     endpoint |-> [method |-> "", path |-> << >>, params |-> {}],
     input |-> [keys |-> {}, path |-> << >>, body |-> Undefined,
                text |-> ""],
     result |-> NoResult]

\* String.prototype.includes
includes(text, part) ==
    \E i \in 1..(Len(text) + 1 - Len(part)) :
        SubSeq(text, i, i + Len(part) - 1) = part

\* String.prototype.replace with a string as pattern: the first occurrence
\* is replaced
replace(text, part, by) ==
    IF ~includes(text, part) THEN text
    ELSE LET at == CHOOSE i \in 1..(Len(text) + 1 - Len(part)) :
                       /\ SubSeq(text, i, i + Len(part) - 1) = part
                       /\ \A j \in 1..(i - 1) :
                              SubSeq(text, j, j + Len(part) - 1) # part
         IN SubSeq(text, 1, at - 1) \o by
                \o SubSeq(text, at + Len(part), Len(text))

\* encodeURIComponent, for the characters of the texts used
RECURSIVE encodeURIComponent(_)
encodeURIComponent(text) ==
    IF text = << >> THEN << >>
    ELSE (CASE Head(text) = ":" -> << "%", "3", "A" >>
            [] Head(text) = " " -> << "%", "2", "0" >>
            [] Head(text) = "/" -> << "%", "2", "F" >>
            [] OTHER -> << Head(text) >>)
         \o encodeURIComponent(Tail(text))

\* The last position of the run of word characters that starts at i
RECURSIVE runEnd(_, _)
runEnd(text, i) ==
    IF i < Len(text) /\ text[i + 1] \notin NonWord THEN runEnd(text, i + 1)
    ELSE i

\* Array.from(text.matchAll(/:([A-Za-z0-9_]+)/g)).map((m) => m[1]), from
\* position i on
RECURSIVE matchAll(_, _)
matchAll(text, i) ==
    IF i >= Len(text) THEN << >>
    ELSE IF text[i] = ":" /\ text[i + 1] \notin NonWord
         THEN << SubSeq(text, i + 1, runEnd(text, i + 1)) >>
                  \o matchAll(text, runEnd(text, i + 1) + 1)
         ELSE matchAll(text, i + 1)

\* const missingTokens = Array.from(url.matchAll(...)).map((m) => m[1])
missingTokens(url) == matchAll(url, 1)

\* for (const [key, value] of Object.entries(path)): a null or undefined
\* value and a key whose token the url does not hold are passed over
RECURSIVE interpolate(_, _)
interpolate(url, entries) ==
    IF entries = << >> THEN url
    ELSE LET entry == Head(entries)
             tok == << ":" >> \o entry.key
         IN IF entry.value.null \/ ~includes(url, tok)
            THEN interpolate(url, Tail(entries))
            ELSE interpolate(replace(url, tok,
                                     encodeURIComponent(entry.value.text)),
                             Tail(entries))

\* The query string appended for query = { q: "1" }
withQuery(url, in) ==
    IF "query" \in in.keys
    THEN url \o (IF includes(url, << "?" >>) THEN << "&" >> ELSE << "?" >>)
             \o << "q", "=", "1" >>
    ELSE url

\* buildUrlAndBody(endpoint, parsedInput) of the earlier revision: what it
\* returns, or the error it throws
earlierBuildUrlAndBody(root, e, in) ==
    IF in.keys = {}
    THEN [NoResult EXCEPT
             !.url = root \o e.path,
             !.body = IF e.method # "GET" THEN stringify(in.text)
                      ELSE Undefined]
    ELSE LET url == interpolate(root \o e.path, in.path) IN
         IF Len(missingTokens(url)) > 0
         THEN [NoResult EXCEPT !.threw = TRUE,
                               !.code = "MISSING_PATH_PARAMS",
                               !.missing = missingTokens(url)]
         ELSE [NoResult EXCEPT
                  !.url = withQuery(url, in),
                  !.body = IF e.method # "GET"
                              /\ in.body \notin {Undefined, Null}
                           THEN stringify(in.body) ELSE Undefined]

\* request() of the earlier revision at its call of buildUrlAndBody, on a
\* client of the given baseUrl
earlierRequest(root, e, in) ==
    /\ built.pc = "idle"
    /\ built' = [pc |-> "done", base |-> root, endpoint |-> e, input |-> in,
                 result |-> earlierBuildUrlAndBody(root, e, in)]
    /\ UNCHANGED << configVars, callVars, seenVars, calls, contexts, cache,
                    now, cacheRuns, retryRun, authRun, pipeline >>

----------------------------------------------------------------------------
(* The library at rest: no call in flight, an empty cache, no middleware
   invoked *)

atRest ==
    /\ calls = [i \in Calls |-> NoCall]
    /\ contexts = << >>
    /\ cache = [key \in CacheKeys |-> NoEntry]
    /\ now = 0
    /\ cacheRuns = [i \in CacheRuns |-> NoCacheRun]
    /\ retryRun = NoRetryRun
    /\ authRun = NoAuthRun
    /\ pipeline = NoPipeline
    /\ built = NotBuilt

\* A client on its own: no middleware of the library is instantiated and
\* nothing but the client's own call is followed
notInUse ==
    /\ calls = << >>
    /\ contexts = << >>
    /\ cache = << >>
    /\ now = 0
    /\ cacheRuns = << >>
    /\ retryRun = << >>
    /\ authRun = << >>
    /\ pipeline = << >>
    /\ built = << >>

----------------------------------------------------------------------------
(* Initial state: a client fresh from its constructor and init() *)

\* new ApiClient(config, contracts) followed by init(), for the values of
\* config.token, config.tokenProvider and config.useMockData given
constructor(tokens, providers, mockModes) ==
    /\ token \in tokens
    /\ tokenProvider \in providers
    /\ useMockData \in mockModes
    /\ middlewares = << >>
    /\ errorHandler = FALSE
    /\ responseTransform = "identity"
    /\ retryConfig = NoRetryConfig
    /\ responseWrapper = FALSE
    /\ setupCalls = 0
    /\ pc = "idle"
    /\ endpoint = NoEndpoint
    /\ input = NoInput
    /\ options = NoOptions
    /\ ctx = NoCtx
    /\ timeoutId = "unset"
    /\ aborted = FALSE
    /\ attempt = 0
    /\ outcome = Pending
    /\ providerCalls = 0
    /\ mwCalls = 0
    /\ fetchCalls = 0
    /\ fnCalls = 0
    /\ lastThrown = NoError
    /\ handlerCalls = 0
    /\ handlerLast = NoError
    /\ trace = << >>
    /\ delays = << >>
    /\ condCalls = << >>
    /\ transformCalls = 0
    /\ wrapperCalls = 0
    /\ lastResponse = Rejection(NoError)
    /\ sent = NoCtx

\* Every construction
Init ==
    /\ constructor(StaticTokens, {"unset"} \cup TokenProvider, BOOLEAN)
    /\ notInUse

\* The constructions that leave tokenProvider and useMockData out of config
InitPlain == constructor(StaticTokens, {"unset"}, {FALSE}) /\ notInUse

----------------------------------------------------------------------------
(* Configuration calls, made before the endpoint call *)

CanConfigure == pc = "idle" /\ setupCalls < MaxSetupCalls

Configured ==
    setupCalls' = setupCalls + 1 /\ UNCHANGED << callVars, seenVars, libVars >>

use(mw) ==
    /\ CanConfigure
    /\ Len(middlewares) < MaxMiddlewares
    /\ middlewares' = Append(middlewares, mw)
    /\ Configured
    /\ UNCHANGED << token, tokenProvider, errorHandler, responseTransform,
                    retryConfig, responseWrapper, useMockData >>

onError ==
    /\ CanConfigure
    /\ errorHandler' = TRUE
    /\ Configured
    /\ UNCHANGED << token, tokenProvider, middlewares, responseTransform,
                    retryConfig, responseWrapper, useMockData >>

useResponseTransform(fn) ==
    /\ CanConfigure
    /\ responseTransform' = fn
    /\ Configured
    /\ UNCHANGED << token, tokenProvider, middlewares, errorHandler,
                    retryConfig, responseWrapper, useMockData >>

setRetryConfig(config) ==
    /\ CanConfigure
    /\ retryConfig' = config
    /\ Configured
    /\ UNCHANGED << token, tokenProvider, middlewares, errorHandler,
                    responseTransform, responseWrapper, useMockData >>

setTokenProvider(provider) ==
    /\ CanConfigure
    /\ tokenProvider' = provider
    /\ Configured
    /\ UNCHANGED << token, middlewares, errorHandler, responseTransform,
                    retryConfig, responseWrapper, useMockData >>

setMockMode(enabled) ==
    /\ CanConfigure
    /\ useMockData' = enabled
    /\ Configured
    /\ UNCHANGED << token, tokenProvider, middlewares, errorHandler,
                    responseTransform, retryConfig, responseWrapper >>

setResponseWrapper ==
    /\ CanConfigure
    /\ responseWrapper' = TRUE
    /\ Configured
    /\ UNCHANGED << token, tokenProvider, middlewares, errorHandler,
                    responseTransform, retryConfig, useMockData >>

----------------------------------------------------------------------------
(* The endpoint call *)

\* errorHandler?.(error): the observer, when registered, is handed `errors`
\* in order.
Observe(errors) ==
    IF errorHandler /\ Len(errors) > 0
    THEN /\ handlerCalls' = handlerCalls + Len(errors)
         /\ handlerLast' = errors[Len(errors)]
    ELSE UNCHANGED << handlerCalls, handlerLast >>

\* request(endpoint, input) up to its first suspension: request validation,
\* the mock switch, buildUrlAndBody, and the start of performRequestLogic,
\* which calls getCurrentToken() and awaits it.
request(e, in, opts) ==
    /\ pc = "idle"
    /\ endpoint' = e
    /\ input' = in
    /\ options' = opts
    /\ IF requestParseThrows(in)
       THEN /\ pc' = "done"
            /\ outcome' = Rejected(ZodError(<< "Required" >>))
            /\ UNCHANGED providerCalls
       ELSE IF takesMockPath(useMockData, e)
       THEN /\ pc' = "mock"
            /\ UNCHANGED << outcome, providerCalls >>
       ELSE /\ pc' = "token"
            /\ providerCalls' =
                   IF tokenProvider # "unset" THEN providerCalls + 1
                   ELSE providerCalls
            /\ UNCHANGED outcome
    /\ UNCHANGED libVars
    /\ UNCHANGED << configVars, ctx, timeoutId, aborted, attempt, mwCalls,
                    fetchCalls, fnCalls, lastThrown, handlerCalls, handlerLast,
                    trace, delays, condCalls, transformCalls, wrapperCalls,
                    lastResponse, sent >>

\* handleMockRequest: the mock delay elapses, the mock value is validated
\* against endpoint.response and transformed.
handleMockRequest ==
    /\ pc = "mock"
    /\ pc' = "done"
    /\ outcome' = Resolved(applyTransform(responseTransform, "mock"))
    /\ transformCalls' = transformCalls + 1
    /\ UNCHANGED libVars
    /\ UNCHANGED << configVars, endpoint, input, options, ctx, timeoutId,
                    aborted, attempt, providerCalls, mwCalls, fetchCalls,
                    fnCalls, lastThrown, handlerCalls, handlerLast, trace,
                    delays, condCalls, wrapperCalls, lastResponse, sent >>

\* performRequestLogic from the moment the awaited token settles: the auth
\* precondition, the headers and the request context.  The chain is then
\* ready to run its first attempt.
performRequestLogic ==
    /\ pc = "token"
    /\ LET tok == getCurrentToken(tokenProvider, token) IN
       IF tok = "throws"
       THEN /\ pc' = "done"
            /\ outcome' = Rejected(PlainError("Token provider failed"))
            /\ UNCHANGED << ctx, timeoutId, handlerCalls, handlerLast >>
       ELSE IF missingToken(endpoint, tok)
       THEN /\ pc' = "done"
            /\ outcome' = Rejected(createError("Missing token for "
                                               \o endpoint.path, 401, "NO_TOKEN"))
            /\ Observe(<< createError("Missing token for " \o endpoint.path,
                                      401, "NO_TOKEN") >>)
            /\ UNCHANGED << ctx, timeoutId >>
       ELSE /\ pc' = "run"
            /\ ctx' = [url |-> buildUrlAndBody(endpoint, input).url,
                       method |-> endpoint.method,
                       body |-> buildUrlAndBody(endpoint, input).body,
                       headers |-> buildHeaders(endpoint, tok),
                       signal |-> initSignal(options)]
            /\ timeoutId' = setTimeout(options)
            /\ UNCHANGED << outcome, handlerCalls, handlerLast >>
    /\ UNCHANGED libVars
    /\ UNCHANGED << configVars, endpoint, input, options, aborted, attempt,
                    providerCalls, mwCalls, fetchCalls, fnCalls, lastThrown,
                    trace, delays, condCalls, transformCalls, wrapperCalls,
                    lastResponse, sent >>

\* The attempt's runner() has settled with `res` (a response, or a thrown
\* error): the rest of execute, the catch of executeWithRetry and the
\* try / catch of performRequestLogic.
AttemptSettles(res) ==
    LET x == execute(res, responseWrapper, responseTransform)
        inner == IF x.threw /\ x.reported THEN << x.error >> ELSE << >>
        k == attempt + 1
        \* executeWithRetry normalizes what fn() threw; without a retryConfig
        \* it returns fn() and the error passes through as thrown
        error == IF retryConfig.set THEN normalizeError(x.error) ELSE x.error
    IN
    /\ lastResponse' = res
    /\ wrapperCalls' =
           IF callsWrapper(res, responseWrapper) THEN wrapperCalls + 1
           ELSE wrapperCalls
    /\ IF ~x.threw
       THEN /\ pc' = "done"
            /\ outcome' = Resolved(x.value)
            /\ transformCalls' = transformCalls + 1
            /\ timeoutId' = clearTimeout(timeoutId)
            /\ UNCHANGED << attempt, lastThrown, handlerCalls, handlerLast,
                            delays, condCalls >>
       ELSE IF retryConfig.set /\ shouldRetry(retryConfig, error, k)
       THEN /\ pc' = "backoff"
            /\ lastThrown' = x.error
            /\ attempt' = k
            /\ condCalls' = IF conditionCalled(retryConfig, k)
                            THEN Append(condCalls, conditionCall(error, k))
                            ELSE condCalls
            /\ delays' = Append(delays, getBackoffDelay(retryConfig.backoff, k))
            /\ Observe(inner)
            /\ UNCHANGED << outcome, transformCalls, timeoutId >>
       ELSE /\ pc' = "done"
            /\ lastThrown' = x.error
            /\ attempt' = IF retryConfig.set THEN k ELSE attempt
            /\ condCalls' = IF conditionCalled(retryConfig, k)
                            THEN Append(condCalls, conditionCall(error, k))
                            ELSE condCalls
            /\ outcome' = Rejected(normalizeError(error))
            /\ Observe(inner \o << normalizeError(error) >>)
            /\ timeoutId' = clearTimeout(timeoutId)
            /\ UNCHANGED << delays, transformCalls >>

\* One attempt starts: execute calls runner(), the middlewares run their
\* code before next() from the outermost inwards, and either the transport
\* is called or a middleware ends the descent.
StartAttempt ==
    /\ pc = "run"
    /\ fnCalls' = fnCalls + 1
    /\ LET chain == runner(middlewares)
           stop == Descend(middlewares, chain, 1)
       IN
       IF stop > Len(chain)
       THEN /\ pc' = "fetch"
            /\ mwCalls' = mwCalls + Len(chain)
            /\ fetchCalls' = fetchCalls + 1
            /\ sent' = ctx
            /\ trace' = Befores(chain, Len(chain)) \o << Event("fetch", 0) >>
            /\ UNCHANGED << attempt, outcome, lastThrown, handlerCalls,
                            handlerLast, delays, condCalls, transformCalls,
                            timeoutId, wrapperCalls, lastResponse >>
       ELSE /\ mwCalls' = mwCalls + stop
            /\ UNCHANGED << fetchCalls, sent >>
            /\ IF middlewares[chain[stop]] = "short"
               THEN /\ trace' = Befores(chain, stop) \o Afters(chain, stop - 1)
                    /\ AttemptSettles(ShortResponse)
               ELSE /\ trace' = Befores(chain, stop)
                    /\ AttemptSettles(MiddlewareFailure)
    /\ UNCHANGED libVars
    /\ UNCHANGED << configVars, endpoint, input, options, ctx, aborted,
                    providerCalls >>

\* The transport settles with outcome o; a response travels back through
\* the code after next() of every middleware, a failure propagates.  A fetch
\* whose signal is aborted rejects.
fetchSettles(o) ==
    /\ pc = "fetch"
    /\ (o = AbortFailure) <=> signalAborted(sent.signal, aborted, timeoutId)
    /\ trace' = IF o.kind = "response"
                THEN trace \o Afters(runner(middlewares), Len(middlewares))
                ELSE trace
    /\ AttemptSettles(o)
    /\ UNCHANGED libVars
    /\ UNCHANGED << configVars, endpoint, input, options, ctx, aborted,
                    providerCalls, mwCalls, fetchCalls, fnCalls, sent >>

\* The backoff wait of executeWithRetry elapses and the loop runs fn() again
backoffElapses ==
    /\ pc = "backoff"
    /\ pc' = "run"
    /\ UNCHANGED libVars
    /\ UNCHANGED << configVars, endpoint, input, options, ctx, timeoutId,
                    aborted, attempt, outcome, seenVars >>

\* The timer of the call fires: its callback aborts the call's own
\* controller.  A timer callback runs only while no code of the call is
\* running, that is while the call is suspended or after it has settled.
timeoutElapses ==
    /\ timeoutId = "armed"
    /\ pc # "run"
    /\ timeoutId' = "fired"
    /\ UNCHANGED libVars
    /\ UNCHANGED << configVars, pc, endpoint, input, options, ctx, aborted,
                    attempt, outcome, seenVars >>

\* The caller aborts the signal it passed in options while the call is
\* suspended
abort ==
    /\ pc \in {"token", "fetch", "backoff"}
    /\ options.signal # "none"
    /\ ~aborted
    /\ aborted' = TRUE
    /\ UNCHANGED libVars
    /\ UNCHANGED << configVars, pc, endpoint, input, options, ctx, timeoutId,
                    attempt, outcome, seenVars >>

----------------------------------------------------------------------------

\* Calls made without RequestOptions
Next ==
    \/ \E mw \in Middleware : use(mw)
    \/ onError
    \/ \E fn \in Transforms : useResponseTransform(fn)
    \/ \E config \in RetryConfigs : setRetryConfig(config)
    \/ \E provider \in TokenProvider : setTokenProvider(provider)
    \/ \E enabled \in BOOLEAN : setMockMode(enabled)
    \/ setResponseWrapper
    \/ \E e \in contracts, in \in Inputs : request(e, in, NoOptions)
    \/ handleMockRequest
    \/ performRequestLogic
    \/ StartAttempt
    \/ \E o \in FetchOutcomes : fetchSettles(o)
    \/ backoffElapses

\* Calls made with every combination of RequestOptions, the timer and the
\* caller's abort.  The retry configurations are those of one backoff
\* strategy: the strategy decides how long a wait is, not whether the timer
\* or the signal fires during it.
NextWithOptions ==
    \/ \E mw \in Middleware : use(mw)
    \/ onError
    \/ \E fn \in Transforms : useResponseTransform(fn)
    \/ \E config \in RetryConfigs :
           config.backoff = "fixed" /\ setRetryConfig(config)
    \/ \E provider \in TokenProvider : setTokenProvider(provider)
    \/ \E enabled \in BOOLEAN : setMockMode(enabled)
    \/ setResponseWrapper
    \/ \E e \in contracts, in \in Inputs, opts \in RequestOptions :
           request(e, in, opts)
    \/ handleMockRequest
    \/ performRequestLogic
    \/ StartAttempt
    \/ \E o \in FetchOutcomes \cup {AbortFailure} : fetchSettles(o)
    \/ backoffElapses
    \/ timeoutElapses
    \/ abort

Spec == Init /\ [][Next]_vars

SpecWithOptions == InitPlain /\ [][NextWithOptions]_vars

\* Calls under every retry configuration, and nothing else configured
NextBackoff ==
    \/ \E config \in RetryConfigs : setRetryConfig(config)
    \/ \E e \in contracts, in \in Inputs : request(e, in, NoOptions)
    \/ performRequestLogic
    \/ StartAttempt
    \/ \E o \in FetchOutcomes : fetchSettles(o)
    \/ backoffElapses

SpecBackoff == InitPlain /\ [][NextBackoff]_vars

----------------------------------------------------------------------------
(* Vocabulary of the properties *)

\* The token the call resolves: the provider's result when a provider is
\* set, the static token otherwise
ResolvedToken == IF tokenProvider # "unset" THEN tokenProvider ELSE token

\* The call has been made, passed request validation and is not mocked
RealCall ==
    /\ pc # "idle"
    /\ input.accepted
    /\ ~(useMockData /\ endpoint.mockData # "none")

Settled == pc = "done"

Failed == pc = "done" /\ outcome.state = "rejected"

\* The retry condition in force accepts the error
Retryable(error) ==
    CASE retryConfig.retryCondition = "accept" -> TRUE
      [] retryConfig.retryCondition = "reject" -> FALSE
      [] OTHER -> error.status >= 500

----------------------------------------------------------------------------
(* C1 *)

\* C1: for an endpoint with auth = true, once the resolved token (the
\* provider's result if a provider is set, else the static token) is known
\* to be falsy, the call has rejected with code NO_TOKEN and status 401 and
\* no middleware and no transport call was made.
C1_NoTokenRejects ==
    ( /\ RealCall
      /\ pc # "token"
      /\ endpoint.auth
      /\ ResolvedToken \in {Undefined, Null, ""} )
    => /\ Failed
       /\ outcome.error.type = "RichError"
       /\ outcome.error.code = "NO_TOKEN"
       /\ outcome.error.status = 401
       /\ mwCalls = 0
       /\ fetchCalls = 0
       /\ fnCalls = 0

\* A provider that returned the empty string, with a middleware registered
C1_Witness ==
    /\ Failed
    /\ endpoint.auth
    /\ tokenProvider = ""
    /\ Len(middlewares) > 0
    /\ outcome.error.code = "NO_TOKEN"

----------------------------------------------------------------------------
(* C2 *)

\* C2, as stated: with maxRetries = n, a call whose attempts all failed has
\* made exactly n + 1 attempts.
C2_AlwaysFailingRunsAllAttempts ==
    (Failed /\ retryConfig.set /\ fnCalls > 0)
    => fnCalls = retryConfig.maxRetries + 1

\* C2, amended: with maxRetries = n, a call whose attempts all failed made
\* at most n + 1 attempts, stopped earlier only on a failure the retry
\* condition does not accept (so it made exactly n + 1 when every failure
\* was accepted), and rejected with the normalized error of its last attempt.
C2_RetryableFailuresRunAllAttempts ==
    (Failed /\ retryConfig.set /\ fnCalls > 0)
    => /\ fnCalls <= retryConfig.maxRetries + 1
       /\ fnCalls < retryConfig.maxRetries + 1 => ~Retryable(outcome.error)
       /\ outcome.error = normalizeError(lastThrown)
       /\ Len(delays) = fnCalls - 1

\* Retries exhausted with maxRetries = 2 on errors the default policy accepts
C2_Witness ==
    /\ Failed
    /\ retryConfig.set
    /\ retryConfig.maxRetries = 2
    /\ retryConfig.retryCondition = "none"
    /\ fnCalls = 3
    /\ outcome.error.status = 500

----------------------------------------------------------------------------
(* C3 *)

\* C3: without a retryCondition, an attempt that fails with a status >= 500
\* is followed by a backoff wait and another attempt while retries remain,
\* and an attempt that fails with a lower status (400) ends the call at
\* once: the call rejects and no backoff wait is started.
C3_DefaultRetryCondition ==
    [][ ( /\ retryConfig.set
          /\ retryConfig.retryCondition = "none"
          /\ pc \in {"run", "fetch"}
          /\ pc' \in {"backoff", "done"}
          /\ outcome'.state # "resolved" )
        => LET error == normalizeError(lastThrown') IN
           /\ (error.status >= 500 /\ attempt' <= retryConfig.maxRetries)
              => (pc' = "backoff" /\ Len(delays') = Len(delays) + 1)
           /\ error.status < 500
              => (pc' = "done" /\ outcome' = Rejected(error) /\ delays' = delays)
      ]_vars

\* A 500 was retried, then a 400 ended the call with a retry still left
C3_Witness ==
    /\ Failed
    /\ retryConfig.set
    /\ retryConfig.retryCondition = "none"
    /\ retryConfig.maxRetries = 2
    /\ fnCalls = 2
    /\ Len(delays) = 1
    /\ outcome.error.status = 400

----------------------------------------------------------------------------
(* C4, C5 *)

\* Code before next() of m1 .. ms, in registration order
Down(s) == [i \in 1..s |-> Event("before", i)]

\* Code after next() of ms .. m1, in reverse registration order
Up(s) == [i \in 1..s |-> Event("after", s + 1 - i)]

\* The events of an attempt that went all the way down and back up
FullTrace(n) == Down(n) \o << Event("fetch", 0) >> \o Up(n)

C5_LastRegisteredRunsFirst ==
    (Len(middlewares) >= 2 /\ Len(trace) > 0)
    => trace[1] = Event("before", Len(middlewares))

----------------------------------------------------------------------------
(* C6 *)

\* C6, as stated: a call that failed (missing token, HTTP error, envelope
\* failure, response validation, transport failure, retry exhaustion) has
\* had the observer invoked exactly once, with the normalized error the
\* caller's promise rejected with.
C6_ObserverOncePerFailedCall ==
    ( /\ Failed
      /\ RealCall
      /\ tokenProvider # "throws"
      /\ errorHandler )
    => /\ handlerCalls = 1
       /\ handlerLast = outcome.error
       /\ handlerLast.type = "RichError"

----------------------------------------------------------------------------
(* C7 *)

----------------------------------------------------------------------------
(* C8 *)

----------------------------------------------------------------------------
(* C9 *)

\* C9, as stated: when the token provider throws, the call rejects with the
\* provider's own error, that error is reported to the observer, and no
\* middleware and no transport call is made.
C9_ProviderFailureReported ==
    ( /\ Settled
      /\ RealCall
      /\ tokenProvider = "throws"
      /\ errorHandler )
    => /\ outcome = Rejected(PlainError("Token provider failed"))
       /\ handlerCalls >= 1
       /\ handlerLast = outcome.error
       /\ mwCalls = 0
       /\ fetchCalls = 0

----------------------------------------------------------------------------
(* C10 *)

----------------------------------------------------------------------------
(* C11, C12 *)

\* The call got as far as building its request context
Prepared == pc \in {"run", "fetch", "backoff"} \/ (Settled /\ fnCalls > 0)

\* C11: a call given a timeout has its timer armed while it is in flight,
\* and once the call has settled, however it settled, the timer is not
\* armed any more: it was cleared at settlement unless it had fired before,
\* so it cannot fire after the call has settled.
C11_NoTimerArmedOnceSettled ==
    /\ Settled => timeoutId \in {"unset", "cleared", "fired"}
    /\ (Prepared /\ options.timeout # 0 /\ ~Settled)
       => timeoutId \in {"armed", "fired"}
    /\ (Prepared /\ options.timeout # 0 /\ Settled)
       => timeoutId \in {"cleared", "fired"}
    /\ options.timeout = 0 => timeoutId = "unset"

\* A call with a timeout that was retried once and then failed, its timer
\* cleared before it fired
C11_Witness ==
    /\ Failed
    /\ options.timeout # 0
    /\ fnCalls = 2
    /\ timeoutId = "cleared"

\* C12, as stated: for a call given both a signal and a timeout, the signal
\* the context carries is aborted exactly when the caller's signal has been
\* aborted or the timeout has elapsed.
C12_SignalAbortedByEitherSource ==
    (Prepared /\ options.signal # "none" /\ options.timeout # 0)
    => (signalAborted(ctx.signal, aborted, timeoutId)
        <=> (aborted \/ timeoutId = "fired"))

----------------------------------------------------------------------------
(* C13 *)

\* The last attempt of a settled call ended with a response whose body is
\* JSON
Answered ==
    /\ Settled
    /\ fnCalls > 0
    /\ lastResponse.kind = "response"
    /\ lastResponse.body.syntax

\* The last response carried a failure envelope the wrapper accepts
EnvelopeFailure ==
    /\ Answered
    /\ responseWrapper
    /\ WrapperAccepts(lastResponse.body)
    /\ lastResponse.body.success = "false"

\* C13, as stated: with a wrapper configured, a response whose body the
\* wrapper accepts and that has success = false, message m and code c makes
\* the call reject with code "API_ERROR_<c>", message m and status c.
C13_EnvelopeFailureKeepsMessageAndCode ==
    EnvelopeFailure
    => /\ Failed
       /\ outcome.error.code = "API_ERROR_" \o lastResponse.body.code
       /\ outcome.error.message = lastResponse.body.message
       /\ outcome.error.status = Number(lastResponse.body.code)

\* C13, amended: such a response makes the call reject with code
\* "API_ERROR_<c>", with message m, or "Request failed" when m is empty, and
\* with status c, or the HTTP status when c is 0, whatever the HTTP status;
\* the payload is not validated and nothing is returned.
C13_EnvelopeFailureRejects ==
    EnvelopeFailure
    => /\ Failed
       /\ outcome.error.type = "RichError"
       /\ outcome.error.code = "API_ERROR_" \o lastResponse.body.code
       /\ outcome.error.message =
              IF lastResponse.body.message = "" THEN "Request failed"
              ELSE lastResponse.body.message
       /\ outcome.error.status =
              IF lastResponse.body.code = "0" THEN lastResponse.status
              ELSE Number(lastResponse.body.code)
       /\ transformCalls = 0

\* The envelope { success: false, message: "not found", code: 404 } on a 200
C13_Witness ==
    /\ Failed
    /\ responseWrapper
    /\ lastResponse = EnvelopeFail200
    /\ outcome.error.code = "API_ERROR_404"
    /\ outcome.error.message = "not found"
    /\ outcome.error.status = 404

----------------------------------------------------------------------------
(* C14 *)

\* The last response carried a body the wrapper does not accept
EnvelopeInvalid ==
    /\ Answered
    /\ responseWrapper
    /\ ~WrapperAccepts(lastResponse.body)

\* C14: with a wrapper configured, a response whose body fails validation
\* against the wrapper makes the call reject with code VALIDATION_ERROR and
\* no status, whether the HTTP status is 2xx or not: the attempt threw the
\* wrapper's ZodError and not an HTTP error, and a call of one attempt
\* reports that one error to the observer.
C14_EnvelopeValidationFirst ==
    EnvelopeInvalid
    => /\ Failed
       /\ lastThrown.type = "ZodError"
       /\ outcome.error.type = "RichError"
       /\ outcome.error.code = "VALIDATION_ERROR"
       /\ outcome.error.status = 0
       /\ transformCalls = 0
       /\ (errorHandler /\ fnCalls = 1)
          => (handlerCalls = 1 /\ handlerLast = outcome.error)

\* A 400 whose body is not an envelope, on a client with a wrapper and an
\* observer
C14_Witness ==
    /\ Failed
    /\ responseWrapper
    /\ errorHandler
    /\ lastResponse = Http400
    /\ outcome.error.code = "VALIDATION_ERROR"
    /\ handlerCalls = 1

----------------------------------------------------------------------------
(* C15 *)

\* The last attempt of a settled call ended with a response that is not ok
\* and on which no envelope check could throw
NotOk ==
    /\ Settled
    /\ fnCalls > 0
    /\ lastResponse.kind = "response"
    /\ ~lastResponse.ok
    /\ ~responseWrapper

----------------------------------------------------------------------------
(* C16 *)

\* The last response was ok and passed the envelope check, if there is one,
\* and its payload does not match endpoint.response
PayloadInvalid ==
    /\ Answered
    /\ lastResponse.ok
    /\ ~EnvelopeInvalid
    /\ ~EnvelopeFailure
    /\ ~ResponseAccepts(lastResponse.body, responseWrapper)

\* C16: a successful response whose payload fails validation against
\* endpoint.response makes the call reject with code VALIDATION_ERROR and
\* the message "Validation error: " followed by the messages of all the
\* issues of the schema's error joined with ", "; the response transform is
\* not applied.
C16_PayloadValidationError ==
    PayloadInvalid
    => /\ Failed
       /\ lastThrown.type = "ZodError"
       /\ Len(lastThrown.issues) = 2
       /\ outcome.error.type = "RichError"
       /\ outcome.error.code = "VALIDATION_ERROR"
       /\ outcome.error.message =
              "Validation error: " \o lastThrown.issues[1] \o ", "
                  \o lastThrown.issues[2]
       /\ outcome.error.message =
              "Validation error: Required, Expected string, received number"
       /\ transformCalls = 0

\* A 200 whose payload has two issues, on a client with a transform
C16_Witness ==
    /\ Failed
    /\ lastResponse = BadPayload200
    /\ responseTransform # "identity"
    /\ outcome.error.code = "VALIDATION_ERROR"

----------------------------------------------------------------------------
(* C17 *)

\* The errors the call has produced so far
Raised == {lastThrown, outcome.error, handlerLast} \ {NoError}

\* C17: normalizing a normalized error gives the same error again, and a
\* RichError comes back from normalizeError with its message, status, code,
\* title, detail and errors as they were; so the error of a failed attempt
\* that passed through the retry engine and then the final catch is the
\* error normalized once, and a RichError thrown by the attempt is the very
\* error the call rejects with.
C17_NormalizeErrorIdempotent ==
    /\ \A e \in Raised :
          /\ normalizeError(normalizeError(e)) = normalizeError(e)
          /\ e.type = "RichError" => normalizeError(e) = e
    /\ (Failed /\ fnCalls > 0)
       => /\ outcome.error = normalizeError(lastThrown)
          /\ lastThrown.type = "RichError" => outcome.error = lastThrown

\* A 400 with title, detail and errors that crossed the retry engine and
\* the final catch
C17_Witness ==
    /\ Failed
    /\ retryConfig.set
    /\ lastResponse = Http400
    /\ lastThrown.type = "RichError"
    /\ outcome.error.status = 400
    /\ outcome.error.title = "Bad input"
    /\ outcome.error.detail = "id is malformed"

----------------------------------------------------------------------------
(* C18 *)

\* The call is on the mock path: it waits for the mock delay, or it has
\* resolved without an attempt
OnMockPath ==
    \/ pc = "mock"
    \/ Settled /\ outcome.state = "resolved" /\ fnCalls = 0

\* C18, as stated: a call (with a valid input) takes the mock path if and
\* only if mock mode is enabled and the endpoint defines mockData; on the
\* mock path the token provider, the middlewares and the transport are not
\* invoked and the call resolves with the transformed mock value; in every
\* other case the call goes on to token resolution and the real request.
C18_MockPathIffModeAndMockData ==
    (pc # "idle" /\ input.accepted)
    => /\ OnMockPath <=> (useMockData /\ endpoint.mockData # "none")
       /\ OnMockPath
          => /\ providerCalls = 0
             /\ mwCalls = 0
             /\ fetchCalls = 0
             /\ fnCalls = 0
             /\ handlerCalls = 0
             /\ Settled
                => outcome = Resolved(applyTransform(responseTransform, "mock"))

----------------------------------------------------------------------------
(* C19 *)

\* C19, as stated: a call that settled on the mock path of a client with a
\* response wrapper has had the wrapper applied to the mock value (wrapped
\* as a success envelope and validated), and the response transform
\* applied once to the validated payload.
C19_MockValueGoesThroughWrapper ==
    (OnMockPath /\ Settled /\ responseWrapper)
    => /\ wrapperCalls = 1
       /\ transformCalls = 1
       /\ outcome = Resolved(applyTransform(responseTransform, "mock"))

----------------------------------------------------------------------------
(* C20 *)

Succeeded == Settled /\ outcome.state = "resolved"

\* C20: a call that succeeded returns the validated payload when no
\* transform was registered, and fn(validated payload) when fn is the
\* transform registered last; the transform has then been applied exactly
\* once, to a payload that passed the envelope check (when a wrapper is set)
\* and the validation against endpoint.response.  A call that failed, or has
\* not settled yet, has not had the transform applied at all.
C20_TransformAppliedOnceOnSuccess ==
    /\ Succeeded
       => /\ transformCalls = 1
          /\ LET payload == IF fnCalls = 0 THEN "mock" ELSE "data" IN
             outcome.value =
                 IF responseTransform = "identity" THEN payload
                 ELSE responseTransform \o "(" \o payload \o ")"
          /\ fnCalls > 0
             => /\ lastResponse.kind = "response"
                /\ lastResponse.ok
                /\ responseWrapper
                   => /\ WrapperAccepts(lastResponse.body)
                      /\ lastResponse.body.success = "true"
                /\ ResponseAccepts(lastResponse.body, responseWrapper)
    /\ ~Succeeded => transformCalls = 0

\* A success envelope unwrapped, validated and transformed by f
C20_Witness ==
    /\ Succeeded
    /\ responseWrapper
    /\ responseTransform = "f"
    /\ lastResponse = EnvelopeOk200
    /\ outcome.value = "f(data)"
    /\ transformCalls = 1

----------------------------------------------------------------------------
(* Calls with structured inputs { path, body, headers } *)

\* Contracts with a path placeholder, endpoint-level headers and a
\* form-data body
getUserById ==
    [name |-> "getUserById", method |-> "GET", path |-> "/users/:id",
     auth |-> FALSE, mockData |-> "none", headers |-> "static",
     bodyType |-> "json"]

updateUser ==
    [name |-> "updateUser", method |-> "PUT", path |-> "/users/:id",
     auth |-> TRUE, mockData |-> "none", headers |-> "function",
     bodyType |-> "json"]

uploadAvatar ==
    [name |-> "uploadAvatar", method |-> "POST", path |-> "/users/:id/avatar",
     auth |-> FALSE, mockData |-> "none", headers |-> "none",
     bodyType |-> "form-data"]

structuredContracts == {getUserById, updateUser, uploadAvatar, createUser}

\* Calls of the structured contracts with every structured input, on a
\* client left as constructed
NextStructured ==
    \/ \E e \in structuredContracts, in \in StructuredInputs \cup Inputs :
           request(e, in, NoOptions)
    \/ performRequestLogic
    \/ StartAttempt
    \/ \E o \in {Ok200, Http400, NetworkFailure} : fetchSettles(o)

SpecStructured == InitPlain /\ [][NextStructured]_vars

----------------------------------------------------------------------------
(* Vocabulary of the properties on structured inputs *)

\* The segments of the path templates
Segments(path) ==
    CASE path = "/users/:id" -> << "users", ":id" >>
      [] path = "/users/:id/avatar" -> << "users", ":id", "avatar" >>
      [] path = "/user" -> << "user" >>
      [] OTHER -> << >>

\* The text encodeURIComponent(String(v)) gives for the path values used
Encoded(v) == IF v = "a b" THEN "a%20b" ELSE v

RECURSIVE Rendered(_)
Rendered(segs) ==
    IF segs = << >> THEN ""
    ELSE "/" \o Head(segs) \o Rendered(Tail(segs))

\* The input gives a non-null value for the key id of its path map
GivesId(in) == in.id \notin {Undefined, Null}

\* The path with the placeholder :id replaced by the encoded value
Substituted(path, in) ==
    Rendered([i \in DOMAIN Segments(path) |->
                 IF Segments(path)[i] = ":id" /\ GivesId(in)
                 THEN Encoded(in.id) ELSE Segments(path)[i]])

\* The placeholders of the path the input leaves unresolved
Unresolved(path, in) ==
    { Segments(path)[i] : i \in { j \in DOMAIN Segments(path) :
                                     /\ Segments(path)[j] = ":id"
                                     /\ ~GivesId(in) } }

\* The transport has been called for the call
Transported == pc # "idle" /\ fetchCalls > 0

----------------------------------------------------------------------------
(* C21 *)

\* C21, as stated: when the input's path map gives a non-null value for id,
\* the URL handed to the transport is the base URL followed by the path
\* template with :id replaced by the URL-encoded value, so that no :id
\* remains in it.
C21_PathPlaceholderReplaced ==
    (Transported /\ GivesId(input))
    => sent.url = baseUrl \o Substituted(endpoint.path, input)

----------------------------------------------------------------------------
(* C22 *)

\* C22, as stated: a call whose path template keeps an unresolved
\* placeholder (no value, or a null or undefined value, for it) never
\* reaches the transport, and rejects with code MISSING_PATH_PARAMS.
C22_UnresolvedPlaceholderRejects ==
    (pc # "idle" /\ input.accepted /\ Unresolved(endpoint.path, input) # {})
    => /\ fetchCalls = 0
       /\ pc = "done" => /\ outcome.state = "rejected"
                         /\ outcome.error.code = "MISSING_PATH_PARAMS"

----------------------------------------------------------------------------
(* C23 *)

\* The input has a body: input.body is neither undefined nor null
HasBody(in) == in.body \notin {Undefined, Null}

\* C23: the body handed to the transport is absent for a GET request,
\* whatever the input; for a non-GET JSON request it is the JSON text of
\* input.body when the input has a body and the JSON text of the whole
\* parsed input otherwise (flat inputs and structured inputs without a body
\* alike).
C23_BodyFromInput ==
    Transported
    => /\ endpoint.method = "GET" => sent.body = Undefined
       /\ (endpoint.method # "GET" /\ endpoint.bodyType = "json")
          => sent.body = IF HasBody(input)
                         THEN "JSON(" \o input.body \o ")"
                         ELSE "JSON(" \o input.text \o ")"

\* A PUT whose input has the body 0: the body is sent, not the whole input
C23_Witness ==
    /\ Transported
    /\ endpoint = updateUser
    /\ input.body = "0"
    /\ sent.body = "JSON(0)"

----------------------------------------------------------------------------
(* C24 *)

\* The value of a header in the headers the transport was called with ("":
\* the header is absent)
HeaderSent(name) ==
    IF name \in DOMAIN sent.headers THEN sent.headers[name] ELSE ""

\* The header X-Trace the endpoint-level headers give for the call
EndpointTrace(e, in) ==
    CASE e.headers = "static" -> "endpoint"
      [] e.headers = "function" -> "endpoint(" \o in.text \o ")"
      [] OTHER -> ""

\* C24, as stated: a header given per call in the structured input reaches
\* the transport, and so does an endpoint-level header that no per-call
\* header overrides.
C24_EndpointAndCallHeadersSent ==
    Transported
    => HeaderSent("X-Trace") =
           IF input.headers # Undefined THEN input.headers
           ELSE EndpointTrace(endpoint, input)

----------------------------------------------------------------------------
(* C30 *)

\* The retry condition of the configuration accepts the k-th failure
Accepts(cfg, error, k) ==
    CASE cfg.retryCondition = "accept" -> TRUE
      [] cfg.retryCondition = "reject" -> FALSE
      [] OTHER -> error.status # 0 /\ error.status >= 500

\* An attempt fails in this step
AttemptFails ==
    /\ pc \in {"run", "fetch"}
    /\ pc' \in {"backoff", "done"}
    /\ outcome'.state # "resolved"

\* C30: without a RetryConfig a call runs its attempt at most once, and a
\* failure of it ends the call in the same step, with no wait and no call of
\* a retry condition.  With a RetryConfig the k-th failure of a call is
\* followed by a wait and another attempt if and only if k <= maxRetries and
\* the retry condition (retryCondition when supplied, else the default
\* policy) accepts the normalized error; retryCondition has been called with
\* k = 1, 2, ... in this order, at most maxRetries times, each time with a
\* normalized error, and exactly on the failures with k <= maxRetries.
C30_RetryDecision ==
    /\ [](~retryConfig.set
          => /\ fnCalls <= 1
             /\ delays = << >>
             /\ condCalls = << >>)
    /\ [](retryConfig.set
          => /\ Len(condCalls) <= retryConfig.maxRetries
             /\ \A i \in DOMAIN condCalls :
                    /\ condCalls[i].attempt = i
                    /\ condCalls[i].normalized
             /\ retryConfig.retryCondition = "none" => condCalls = << >>)
    /\ [][ AttemptFails
           => IF ~retryConfig.set
              THEN /\ pc' = "done"
                   /\ outcome' = Rejected(normalizeError(lastThrown'))
              ELSE LET k == attempt + 1 IN
                   /\ attempt' = k
                   /\ pc' = "backoff"
                      <=> /\ k <= retryConfig.maxRetries
                          /\ Accepts(retryConfig,
                                     normalizeError(lastThrown'), k)
                   /\ Len(condCalls') = Len(condCalls) + 1
                      <=> /\ k <= retryConfig.maxRetries
                          /\ retryConfig.retryCondition # "none"
                   /\ pc' = "done"
                      => outcome' = Rejected(normalizeError(lastThrown'))
         ]_vars

\* A call whose retryCondition accepted the failures 1 and 2 and was not
\* asked about failure 3, which ended the call
C30_Witness ==
    /\ Failed
    /\ retryConfig.set
    /\ retryConfig.maxRetries = 2
    /\ retryConfig.retryCondition = "accept"
    /\ attempt = 3
    /\ Len(condCalls) = 2
    /\ condCalls[2].attempt = 2
    /\ Len(delays) = 2

----------------------------------------------------------------------------
(* Specifications of two calls in flight and of the library's middlewares *)

\* A client constructed with a static token and nothing else
InitLibrary == constructor({"static-token"}, {"unset"}, {FALSE}) /\ atRest

\* Two calls, of either contract and with a flat or a structured input,
\* under every interleaving of their suspension points
NextTwoCalls ==
    \/ \E i \in Calls, e \in {getUser, createUser},
          in \in {flat("valid", TRUE), structured("123", "payload", "call")} :
           callRequest(i, e, in)
    \/ \E i \in Calls : callPerformRequestLogic(i)
    \/ \E i \in Calls, mark \in Marks : callMiddlewareWrites(i, mark)
    \/ \E i \in Calls : callMiddlewareReads(i)
    \/ \E i \in Calls : callFetch(i)
    \/ \E i \in Calls : callSettles(i)

SpecTwoCalls == InitLibrary /\ [][NextTwoCalls]_vars

NextCache ==
    \/ \E i \in CacheRuns, url \in Urls : cacheMiddleware(i, "GET", url)
    \/ \E i \in CacheRuns : cacheMiddleware(i, "POST", "/users")
    \/ \E i \in CacheRuns, res \in NextResponses : cacheNextResolves(i, res)
    \/ \E i \in CacheRuns : cacheNextRejects(i)
    \/ \E i \in CacheRuns : cacheStores(i)
    \/ tick

SpecCache == InitLibrary /\ [][NextCache]_vars

NextRetry ==
    \/ \E opts \in RetryOptions : retryMiddleware(opts)
    \/ \E response \in Responses : retryNextResolves(response)
    \/ \E err \in Errors : retryNextThrows(err)
    \/ retryWaitElapses

SpecRetry == InitLibrary /\ [][NextRetry]_vars

NextAuth ==
    \/ \E headers \in HeadersBefore, opts \in AuthOptions :
           authMiddleware(headers, opts)
    \/ \E newToken \in RefreshedTokens : refreshTokenResolves(newToken)
    \/ refreshTokenThrows
    \/ \E value \in Responses : authNextSettles("resolved", value)
    \/ \E value \in Errors : authNextSettles("rejected", value)

SpecAuth == InitLibrary /\ [][NextAuth]_vars

NextPipeline ==
    \/ \E chain \in Chains, config \in PipelineConfigs :
           pipelineRequest(createUser, flat("valid", TRUE), chain, config)
    \/ pipelineExecute
    \/ pipelineMiddleware
    \/ pipelineFetch
    \/ \E o \in PipelineOutcomes : pipelineFetchSettles(o)
    \/ pipelineBackoffElapses

SpecPipeline == InitLibrary /\ [][NextPipeline]_vars

NextEarlier ==
    \E root \in BaseUrls, e \in EarlierEndpoints, in \in EarlierInputs :
        earlierRequest(root, e, in)

SpecEarlier == InitLibrary /\ [][NextEarlier]_vars

\* A call of the client with at most one middleware and an invocation of
\* the retry middleware, each going its own way; next() of the middleware
\* resolves or throws, with one response and one error
NextSettles ==
    \/ \E chain \in { c \in Chains : Len(c) <= 1 },
          config \in PipelineConfigs :
           pipelineRequest(createUser, flat("valid", TRUE), chain, config)
    \/ pipelineExecute
    \/ pipelineMiddleware
    \/ pipelineFetch
    \/ \E o \in PipelineOutcomes : pipelineFetchSettles(o)
    \/ pipelineBackoffElapses
    \/ \E opts \in RetryOptions : retryMiddleware(opts)
    \/ retryNextResolves("response-1")
    \/ retryNextThrows("fail")
    \/ retryWaitElapses

\* What is awaited settles: code that can run does run, every middleware
\* and the transport settle, next() of the retry middleware settles, and
\* every wait elapses.  Nothing obliges a caller to make a call.
FairSettles ==
    /\ WF_vars(pipelineExecute)
    /\ WF_vars(pipelineMiddleware)
    /\ WF_vars(pipelineFetch)
    /\ WF_vars(\E o \in PipelineOutcomes : pipelineFetchSettles(o))
    /\ WF_vars(pipelineBackoffElapses)
    /\ WF_vars(retryNextResolves("response-1") \/ retryNextThrows("fail"))
    /\ WF_vars(retryWaitElapses)

SpecSettles == InitLibrary /\ [][NextSettles]_vars /\ FairSettles

----------------------------------------------------------------------------
(* C25 *)

\* The context of call i as its own invocation built it
Built(i) ==
    context(calls[i].endpoint, calls[i].input,
            getCurrentToken(tokenProvider, token))

\* The context of call i as its own invocation built it and its own first
\* middleware changed it
Own(i) ==
    LET c == Built(i) IN
    [c EXCEPT !.url = @ \o "?" \o calls[i].wrote,
              !.body = calls[i].wrote,
              !.headers = [name \in DOMAIN c.headers \cup {"X-Mark"} |->
                              IF name = "X-Mark" THEN calls[i].wrote
                              ELSE c.headers[name]]]

\* C25: whatever the interleaving of two calls, the context a call's first
\* middleware is handed is the one built for that call, and what its second
\* middleware reads and what its transport invocation receives is that
\* context with the call's own writes and nothing else; two calls never
\* hold the same context object.
C25_CallsDoNotShareContext ==
    /\ \A i \in Calls :
          /\ calls[i].pc = "first" => contexts[calls[i].ctx] = Built(i)
          /\ calls[i].pc \in {"second", "last"}
             => contexts[calls[i].ctx] = Own(i)
          /\ calls[i].pc \in {"last", "fetch", "done"}
             => calls[i].seen = << Own(i) >>
          /\ calls[i].pc \in {"fetch", "done"}
             => calls[i].sent = << Own(i) >>
    /\ \A i, j \in Calls :
          (i # j /\ calls[i].ctx # 0) => calls[i].ctx # calls[j].ctx

\* Both calls were in flight together on the same endpoint, their
\* middlewares wrote different marks, and each transport invocation got its
\* own call's mark
C25_Witness ==
    /\ calls[1].pc = "fetch"
    /\ calls[2].pc = "fetch"
    /\ calls[1].endpoint = calls[2].endpoint
    /\ calls[1].input # calls[2].input
    /\ calls[1].sent[1].headers["X-Mark"] = "m1"
    /\ calls[2].sent[1].headers["X-Mark"] = "m2"

----------------------------------------------------------------------------
(* C26 *)

\* The store holds an entry for the key whose expiry is later than the
\* current time
Unexpired(key) == cache[key].set /\ cache[key].expires > now

\* The middleware is invoked in this step as invocation i
Invoked(i) ==
    /\ cacheRuns[i].pc \in {"idle", "done"}
    /\ cacheRuns'[i].pc \in {"next", "done"}
    /\ cacheRuns'[i] # cacheRuns[i]

\* Invocation i reads the body of its response and returns in this step
ReadsBody(i) ==
    /\ cacheRuns[i].pc = "json"
    /\ cacheRuns'[i].pc = "done"

\* C26: an invocation for a GET calls next() if and only if the store holds
\* no unexpired entry for METHOD:URL; with such an entry it returns at once
\* a response made of the entry's data, without calling next(), and without
\* one (none yet, or the ttl has elapsed) it calls next() and, when the
\* response has JSON data, writes the entry anew, to expire ttl after the
\* time the invocation took at its start.  An invocation for another method
\* calls next() exactly once, whatever the store holds, and the store
\* changes in no step other than a GET invocation writing its own key.
C26_CacheDecidesByUnexpiredEntry ==
    /\ [](\A i \in CacheRuns :
             /\ cacheRuns[i].nextCalls <= 1
             /\ (cacheRuns[i].pc # "idle" /\ cacheRuns[i].method # "GET")
                => (cacheRuns[i].nextCalls = 1 /\ ~cacheRuns[i].res.synthetic)
             /\ cacheRuns[i].res.synthetic <=> /\ cacheRuns[i].pc = "done"
                                               /\ cacheRuns[i].nextCalls = 0)
    /\ [][ \A i \in CacheRuns :
             /\ Invoked(i)
                => LET run == cacheRuns'[i]
                       key == cacheKey("GET", run.url)
                   IN
                   /\ run.method = "GET"
                      => /\ run.nextCalls = 1 <=> ~Unexpired(key)
                         /\ Unexpired(key)
                            => /\ run.pc = "done"
                               /\ run.res.synthetic
                               /\ run.res.body = cache[key].data
                   /\ run.method # "GET" => run.pc = "next"
                   /\ cache' = cache
             /\ ReadsBody(i)
                => LET run == cacheRuns[i]
                       key == cacheKey("GET", run.url)
                   IN
                   /\ run.method = "GET"
                   /\ cacheRuns'[i].res = run.res
                   /\ \A other \in CacheKeys \ {key} :
                          cache'[other] = cache[other]
                   /\ run.res.body # "<html>"
                      => cache'[key] = [set |-> TRUE, data |-> run.res.body,
                                        expires |-> run.started + ttl]
                   /\ run.res.body = "<html>" => cache' = cache
         ]_vars
    /\ [][ cache' # cache => \E i \in CacheRuns : ReadsBody(i) ]_vars

\* The entry written at time 0 expired at time 2, a GET at time 2 called
\* next() and wrote it anew, and a later GET of the same URL was answered
\* from the store
C26_Witness ==
    /\ now = 2
    /\ cache[cacheKey("GET", "/users")] =
           [set |-> TRUE, data |-> "users-v2", expires |-> 4]
    /\ \E i \in CacheRuns :
          /\ cacheRuns[i].pc = "done"
          /\ cacheRuns[i].url = "/users"
          /\ cacheRuns[i].res.synthetic
          /\ cacheRuns[i].res.body = "users-v2"
          /\ cacheRuns[i].nextCalls = 0

----------------------------------------------------------------------------
(* C27 *)

\* C27, as stated: the store never holds the body of a response with a
\* non-success status, and no GET is answered from the store with one.
C27_OnlySuccessfulResponsesStored ==
    /\ \A key \in CacheKeys :
          cache[key].set => cache[key].data # "not found"
    /\ \A i \in CacheRuns :
          cacheRuns[i].res.synthetic => cacheRuns[i].res.body # "not found"

----------------------------------------------------------------------------
(* C28 *)

\* C28: an invocation of the retry middleware with maxRetries = n calls
\* next() again after each call that threw, n + 1 times at most; it resolves
\* with the response of the first call that resolved, every call before it
\* having thrown; and it rejects only when n + 1 calls threw, with the error
\* of the last of them.
C28_RetryMiddlewareCallsNext ==
    LET run == retryRun
        n == run.maxRetries
    IN
    /\ run.nextCalls <= n + 1
    /\ run.pc = "next" => run.nextCalls = Len(run.thrown) + 1
    /\ run.pc = "wait"
       => (run.nextCalls = Len(run.thrown) /\ run.nextCalls <= n)
    /\ (run.pc = "done" /\ run.state = "resolved")
       => /\ run.value \in Responses
          /\ run.nextCalls = Len(run.thrown) + 1
    /\ (run.pc = "done" /\ run.state = "rejected")
       => /\ run.nextCalls = n + 1
          /\ Len(run.thrown) = n + 1
          /\ run.value = run.thrown[n + 1]
    /\ run.pc = "done" => run.state \in {"resolved", "rejected"}

\* maxRetries = 2 and next() threw three times: three calls, rejected with
\* the last error
C28_Witness ==
    /\ retryRun.pc = "done"
    /\ retryRun.maxRetries = 2
    /\ retryRun.nextCalls = 3
    /\ retryRun.thrown = << "fail", "fail", "fail always" >>
    /\ retryRun.state = "rejected"
    /\ retryRun.value = "fail always"

----------------------------------------------------------------------------
(* C29 *)

----------------------------------------------------------------------------
(* C31 *)

----------------------------------------------------------------------------
(* C32 *)

\* The context obj after the writing middlewares at positions 1 .. n of the
\* chain have each written to it, in that order
RECURSIVE Written(_, _, _)
Written(chain, n, obj) ==
    IF n = 0 THEN obj
    ELSE IF chain[n] = "write" THEN writes(Written(chain, n - 1, obj), n)
         ELSE Written(chain, n - 1, obj)

\* C32: in every attempt the middleware at position j is handed the context
\* as the attempt found it with the writes (url, headers, body, signal) of
\* every middleware before j that wrote before calling next(), and the
\* transport is invoked with the context carrying the writes of all of
\* them, not with the context as the chain was built over it.
C32_WritesSeenDownstream ==
    LET run == pipeline IN
    /\ \A j \in 1..Len(run.saw) :
          /\ run.saw[j].mw = j
          /\ run.saw[j].ctx =
                 Written(run.chain, j - 1, run.began[Len(run.began)])
    /\ Len(run.sent) <= Len(run.began)
    /\ \A k \in 1..Len(run.sent) :
          run.sent[k] = Written(run.chain, Len(run.chain), run.began[k])

\* The first middleware wrote, the second was handed its writes, and the
\* transport was invoked with a url, a body, a header and a signal that
\* are not those the context was created with
C32_Witness ==
    /\ pipeline.chain = << "write", "wrap" >>
    /\ pipeline.pc = "fetch"
    /\ pipeline.saw[2].ctx.signal = "m1"
    /\ pipeline.sent[1].url = pipeline.began[1].url \o "?m1"
    /\ pipeline.sent[1].body = "m1"
    /\ pipeline.sent[1].headers["X-Mark"] = "m1"
    /\ pipeline.sent[1].signal = "m1"
    /\ pipeline.began[1].signal = "none"

----------------------------------------------------------------------------
(* C33 *)

\* The position of the first middleware of the chain that does not call
\* next(), 0 when every middleware calls it
Stop(chain) ==
    IF \E i \in 1..Len(chain) : chain[i] \in {"short", "throw"}
    THEN CHOOSE i \in 1..Len(chain) :
             /\ chain[i] \in {"short", "throw"}
             /\ \A j \in 1..(i - 1) : chain[j] \notin {"short", "throw"}
    ELSE 0

\* An earlier-registered middleware handles what the one at position i throws
Handled(chain, i) == \E j \in 1..(i - 1) : chain[j] = "handle"

----------------------------------------------------------------------------
(* C34 *)

\* The call has made an attempt and the signal its context carries is
\* aborted
Cancelled ==
    /\ pc \in {"run", "fetch", "backoff"}
    /\ fnCalls >= 1
    /\ signalAborted(ctx.signal, aborted, timeoutId)

\* C34, as stated: once the signal the call's context carries is aborted
\* (its timer fired, or the caller aborted), the retry engine invokes the
\* attempt function no more after the attempts made and starts no further
\* backoff wait.
C34_NoAttemptAfterCancellation ==
    [][ Cancelled => (fnCalls' = fnCalls /\ delays' = delays) ]_vars

----------------------------------------------------------------------------
(* C35 *)

\* C35, as stated: a call that resolves, on its first attempt or on a
\* retry, has not invoked the error observer.
C35_ObserverOnlyForFailedCalls ==
    (pc = "done" /\ outcome.state = "resolved") => handlerCalls = 0

----------------------------------------------------------------------------
(* C36 *)

\* How many middlewares of the chain an attempt invokes
Ran(chain) == IF Stop(chain) = 0 THEN Len(chain) ELSE Stop(chain)

----------------------------------------------------------------------------
(* C37 *)

\* The url is the path template as it stands, its placeholder :id still in
\* it
KeepsPlaceholder(url, path) ==
    /\ \E i \in DOMAIN Segments(path) : Segments(path)[i] = ":id"
    /\ url = baseUrl \o Rendered(Segments(path))

\* C37, as stated: the transport is never called with a url in which a
\* placeholder of the endpoint's path template remains, whether the input
\* is structured or flat.
C37_NoPlaceholderTransported ==
    Transported => ~KeepsPlaceholder(sent.url, endpoint.path)

----------------------------------------------------------------------------
(* C38 *)

\* The input is a structured one whose path map gives a non-null value for
\* every placeholder of the endpoint's path template
SuppliesAll(e, in) ==
    /\ in.keys # {}
    /\ \A name \in e.params :
          \E i \in DOMAIN in.path :
              in.path[i].key = name /\ ~in.path[i].value.null

\* C38, as stated: a structured call that gives a non-null value for every
\* placeholder of the path template does not reject with
\* MISSING_PATH_PARAMS, whatever the baseUrl and the values given.
C38_SuppliedPlaceholdersNeverMissing ==
    (built.pc = "done" /\ SuppliesAll(built.endpoint, built.input))
    => ~(built.result.threw /\ built.result.code = "MISSING_PATH_PARAMS")

----------------------------------------------------------------------------
(* C39 *)

\* The call was given a timeout and no signal of the caller's
TimedOnly == options.timeout # 0 /\ options.signal = "none"

\* C39: for a call with a timeout and no external signal, the context
\* carries the signal of the call's own controller through every attempt
\* and backoff wait, and the timer stays set until the call settles; the
\* timer is armed in one step only, before the first attempt, and once it
\* has fired it stays fired, so that the transport call in flight and the
\* one of every later attempt settle as aborted.
C39_OneTimerCoversTheCall ==
    /\ []((TimedOnly /\ pc \in {"run", "fetch", "backoff"})
          => /\ ctx.signal = "controller"
             /\ timeoutId \in {"armed", "fired"})
    /\ [][ TimedOnly
           => /\ (timeoutId' = "armed" /\ timeoutId # "armed")
                 => (pc = "token" /\ fnCalls = 0)
              /\ timeoutId = "fired" => timeoutId' = "fired"
              /\ (pc = "fetch" /\ pc' # "fetch" /\ timeoutId = "fired")
                 => lastResponse' = AbortFailure
              /\ (pc \in {"run", "fetch", "backoff"})
                 => ctx'.signal = ctx.signal ]_vars

\* The first attempt failed, the timer fired before the retry had settled,
\* and the transport call of the retry was aborted
C39_Witness ==
    /\ TimedOnly
    /\ pc = "done"
    /\ fnCalls = 2
    /\ fetchCalls = 2
    /\ delays = << 300 >>
    /\ timeoutId = "fired"
    /\ lastResponse = AbortFailure
    /\ outcome.state = "rejected"

----------------------------------------------------------------------------
(* C40 *)

\* C40: a call that has entered executeWithRetry settles, resolved or
\* rejected, and an invocation of the retry middleware settles, provided
\* what they await settles and their waits elapse; the call makes at most
\* 1 + maxRetries attempts (one without a retry configuration) and the
\* middleware calls next() at most 1 + maxRetries times.
C40_EveryCallSettles ==
    /\ (pipeline.pc # "idle")
       ~> (pipeline.pc = "done"
           /\ pipeline.outcome.state \in {"resolved", "rejected"})
    /\ (retryRun.pc # "idle")
       ~> (retryRun.pc = "done"
           /\ retryRun.state \in {"resolved", "rejected"})
    /\ [](pipeline.fnCalls <= 1 + pipeline.config.maxRetries)
    /\ [](retryRun.nextCalls <= 1 + retryRun.maxRetries)

\* Both have used every retry they had: the call rejected after three
\* attempts under a retryCondition that accepts every error, and the
\* middleware rethrew after three calls of next()
C40_Witness ==
    /\ pipeline.pc = "done"
    /\ pipeline.config.maxRetries = 2
    /\ pipeline.config.retryCondition = "accept"
    /\ pipeline.fnCalls = 3
    /\ pipeline.outcome.state = "rejected"
    /\ retryRun.pc = "done"
    /\ retryRun.maxRetries = 2
    /\ retryRun.nextCalls = 3
    /\ retryRun.state = "rejected"

====
